---- MODULE Spec2Model ----
(***************************************************************************)
(* Double-entry bookkeeping backend: the account registry                  *)
(* (src/src/routes/account.routes.js), the journal engine, ledger view and *)
(* report engine (src/unnamed/part_000) and the error handling middleware  *)
(* (src/src/app.js), over a relational store.                              *)
(*                                                                         *)
(* Amounts are exact decimals counted in thousandths (1 == 0.001), so the  *)
(* balance tolerance 0.001 of the journal engine is 1.  The store is a     *)
(* read-committed relational database: a transaction's inserts and updates *)
(* are private to it until it commits, an UPDATE takes the row's lock      *)
(* until the transaction ends, and id sequences are not rolled back.       *)
(* Every `await` of a handler is one step of the model.                    *)
(***************************************************************************)
EXTENDS Integers, Sequences, FiniteSets, TLC

\* ------------------------------------------------------------------ bounds

\* most lines a posted request body carries
MaxLines == 2
\* most journal entry ids the id sequence hands out
MaxEntries == 2
\* most account ids the id sequence hands out (three are seeded)
MaxAccounts == 4
\* the clock stops at MaxTime
MaxTime == 2

\* ------------------------------------------------------- program constants

\* Math.abs(totalDebit - totalCredit) > 0.001, in thousandths
Tolerance == 1
\* Joi .min(2) on lines
MinLines == 2

\* null and undefined in an id-valued field, and undefined in a string field
Null == -1
Undefined == -2
UndefinedString == "undefined"

\* ------------------------------------------------------------------- state

VARIABLES
    accounts,             \* table accounts: id -> row
    accountSeq,           \* last id handed out by accounts' id sequence
    account_balances,     \* table account_balances: <<account_id, organization_id>> -> balance
    journal_entries,      \* table journal_entries: id -> row (committed)
    journal_entry_lines,  \* table journal_entry_lines: sequence of committed rows, in commit order
    entrySeq,             \* last id handed out by journal_entries' id sequence
    applied,              \* committed balance increments, one record per affected row and line
    pc,                   \* per posting request: the await it is at
    body,                 \* per posting request: req.body
    trx,                  \* per posting request: its transaction and the rows it wrote
    loc,                  \* per posting request: journalEntryId and the balance loop's locals
    err,                  \* per posting request: the error thrown into the catch block
    resp,                 \* per posting request: the response sent
    apc,                  \* per registry request: the await it is at
    areq,                 \* per registry request: the operation and its inputs
    aresp,                \* per registry request: the response sent
    rep,                  \* the report request in flight: its inputs, locals and response
    now                   \* the wall clock, as new Date() reads it

storeVars == <<accounts, accountSeq, account_balances, journal_entries,
               journal_entry_lines, entrySeq, applied>>
postVars == <<pc, body, trx, loc, err, resp>>
regVars == <<apc, areq, aresp>>
vars == <<accounts, accountSeq, account_balances, journal_entries,
          journal_entry_lines, entrySeq, applied, pc, body, trx, loc, err, resp,
          apc, areq, aresp, rep, now>>

\* request slots: two requests of each kind can be in flight at once
Reqs == {1, 2}
Orgs == {1, 2}

\* ------------------------------------------------------- reference tables

\* table account_types (fixed reference data)
account_types ==
    [id \in 1..5 |->
        CASE id = 1 -> [name |-> "Asset", normal_balance |-> "debit"]
          [] id = 2 -> [name |-> "Liability", normal_balance |-> "credit"]
          [] id = 3 -> [name |-> "Equity", normal_balance |-> "credit"]
          [] id = 4 -> [name |-> "Revenue", normal_balance |-> "credit"]
          [] id = 5 -> [name |-> "Expense", normal_balance |-> "debit"]]

\* table account_categories (per organization, under an account type)
account_categories ==
    [id \in 1..3 |->
        CASE id = 1 -> [organization_id |-> 1, account_type_id |-> 1, name |-> "Current Assets"]
          [] id = 2 -> [organization_id |-> 1, account_type_id |-> 4, name |-> "Sales"]
          [] id = 3 -> [organization_id |-> 2, account_type_id |-> 1, name |-> "Current Assets"]]

\* ----------------------------------------------------------------- helpers

Abs(x) == IF x < 0 THEN -x ELSE x

RECURSIVE SumSeq(_)
SumSeq(s) == IF s = <<>> THEN 0 ELSE Head(s) + SumSeq(Tail(s))

\* the sum of a function's values over its (finite) domain
RECURSIVE SumFn(_)
SumFn(f) ==
    IF DOMAIN f = {} THEN 0
    ELSE LET x == CHOOSE y \in DOMAIN f : TRUE
         IN f[x] + SumFn([z \in DOMAIN f \ {x} |-> f[z]])

\* String.prototype.includes, on strings held as sequences of characters
includes(s, k) ==
    \E i \in 1..(Len(s) - Len(k) + 1) : SubSeq(s, i, i + Len(k) - 1) = k


\* the digits of a small id, as template literals print it
Digits(n) ==
    IF n < 0 THEN <<"-", "1">>
    ELSE <<CASE n = 0 -> "0" [] n = 1 -> "1" [] n = 2 -> "2" [] n = 3 -> "3"
             [] n = 4 -> "4" [] n = 5 -> "5" [] n = 6 -> "6" [] n = 7 -> "7"
             [] n = 8 -> "8" [] OTHER -> "9">>

\* ------------------------------------------------------------------ errors

NoError == [name |-> "", code |-> "", message |-> <<>>]

\* new Error(`Account with ID ${line.accountId} not found`)
AccountNotFoundError(accountId) ==
    [name |-> "Error", code |-> "",
     message |-> <<"A", "c", "c", "o", "u", "n", "t", " ", "w", "i", "t", "h", " ", "I", "D", " ">>
                 \o Digits(accountId)
                 \o <<" ", "n", "o", "t", " ", "f", "o", "u", "n", "d">>]

\* the store refuses the connection
ConnectionRefused ==
    [name |-> "Error", code |-> "ECONNREFUSED",
     message |-> <<"c", "o", "n", "n", "e", "c", "t", " ", "E", "C", "O", "N", "N",
                   "R", "E", "F", "U", "S", "E", "D">>]

\* the store aborts a statement (two transactions waiting for each other's row)
DeadlockDetected ==
    [name |-> "error", code |-> "40P01",
     message |-> <<"d", "e", "a", "d", "l", "o", "c", "k", " ", "d", "e", "t", "e",
                   "c", "t", "e", "d">>]

\* the connection to the store's host times out
ConnectTimedOut ==
    [name |-> "Error", code |-> "ETIMEDOUT",
     message |-> <<"c", "o", "n", "n", "e", "c", "t", " ", "E", "T", "I", "M", "E",
                   "D", "O", "U", "T">>]

\* no connection of the pool comes free in time
AcquireTimeout ==
    [name |-> "KnexTimeoutError", code |-> "",
     message |-> <<"K", "n", "e", "x", ":", " ", "T", "i", "m", "e", "o", "u", "t", " ",
                   "a", "c", "q", "u", "i", "r", "i", "n", "g", " ", "a", " ",
                   "c", "o", "n", "n", "e", "c", "t", "i", "o", "n", ".", " ",
                   "T", "h", "e", " ", "p", "o", "o", "l", " ", "i", "s", " ",
                   "p", "r", "o", "b", "a", "b", "l", "y", " ", "f", "u", "l", "l", ".">>]

\* the store cancels a statement that runs too long
StatementTimeout ==
    [name |-> "error", code |-> "57014",
     message |-> <<"c", "a", "n", "c", "e", "l", "i", "n", "g", " ", "s", "t", "a", "t",
                   "e", "m", "e", "n", "t", " ", "d", "u", "e", " ", "t", "o", " ",
                   "s", "t", "a", "t", "e", "m", "e", "n", "t", " ",
                   "t", "i", "m", "e", "o", "u", "t">>]

\* account.bankAccountDetails read of the undefined row of the read back
ReadBackError ==
    [name |-> "TypeError", code |-> "",
     message |-> <<"C", "a", "n", "n", "o", "t", " ", "r", "e", "a", "d", " ",
                   "p", "r", "o", "p", "e", "r", "t", "i", "e", "s", " ", "o", "f", " ",
                   "u", "n", "d", "e", "f", "i", "n", "e", "d">>]

\* the failures the store can answer an await with
DbFaults == {ConnectionRefused, DeadlockDetected}

\* --------------------------------------------------------------- responses

NoResponse == [status |-> 0, code |-> "", details |-> <<>>]

Response(status, code, details) ==
    [status |-> status, code |-> code, details |-> details]

\* process.env.NODE_ENV as deploy.sh sets it in .env
NODE_ENV == "production"

\* err.details, undefined for an error that carries none
detailsOf(e) == IF "details" \in DOMAIN e THEN e.details ELSE <<>>

\* app.js error handling middleware under process.env.NODE_ENV = env
errorHandlerIn(env, e) ==
    IF \/ e.code = "ECONNREFUSED"
       \/ includes(e.message, <<"t", "i", "m", "e", "o", "u", "t">>)
       \/ includes(e.message, <<"p", "o", "o", "l">>)
       \/ includes(e.message, <<"c", "o", "n", "n", "e", "c", "t", "i", "o", "n">>)
    THEN Response(503, "DATABASE_ERROR",
                  IF env = "development" THEN e.message ELSE <<>>)
    ELSE IF e.name = "ValidationError"
    THEN Response(400, "VALIDATION_ERROR", detailsOf(e))
    ELSE Response(500, "SERVER_ERROR",
                  IF env = "development" THEN e.message ELSE <<>>)

\* app.js error handling middleware
errorHandler(e) == errorHandlerIn(NODE_ENV, e)

\* ---------------------------------------------------------- journal engine

\* mutant: the schema without .min(2)
createJournalEntrySchema_NoMin(b) ==
    \A i \in 1..Len(b.lines) :
        b.lines[i].debitAmount >= 0 /\ b.lines[i].creditAmount >= 0

\* createJournalEntrySchema: lines is an array of at least 2 items,
\* each with an integer accountId and amounts >= 0
createJournalEntrySchema(b) ==
    /\ Len(b.lines) >= MinLines
    /\ \A i \in 1..Len(b.lines) :
          b.lines[i].debitAmount >= 0 /\ b.lines[i].creditAmount >= 0

\* lines.reduce((sum, line) => sum + (parseFloat(line.debitAmount) || 0), 0)
totalDebit(lines) == SumSeq([i \in 1..Len(lines) |-> lines[i].debitAmount])

\* lines.reduce((sum, line) => sum + (parseFloat(line.creditAmount) || 0), 0)
totalCredit(lines) == SumSeq([i \in 1..Len(lines) |-> lines[i].creditAmount])

\* mutant: the comparison without Math.abs
Unbalanced_NoAbs(lines) == totalDebit(lines) - totalCredit(lines) > Tolerance

\* Math.abs(totalDebit - totalCredit) > 0.001
Unbalanced(lines) == Abs(totalDebit(lines) - totalCredit(lines)) > Tolerance

\* mutant: the difference taken the other way round
UnbalancedResponse_Swapped(lines) ==
    Response(400, "UNBALANCED_ENTRY",
             <<totalDebit(lines), totalCredit(lines),
               totalCredit(lines) - totalDebit(lines)>>)

\* the 400 UNBALANCED_ENTRY response and its details
UnbalancedResponse(lines) ==
    Response(400, "UNBALANCED_ENTRY",
             <<totalDebit(lines), totalCredit(lines),
               totalDebit(lines) - totalCredit(lines)>>)

\* balance change of one line under the account's normal balance
balanceChange(normalBalance, line) ==
    IF normalBalance = "debit"
    THEN line.debitAmount - line.creditAmount
    ELSE line.creditAmount - line.debitAmount

\* lines.map(line => ({journal_entry_id, account_id, debit_amount, credit_amount}))
journalEntryLines(journalEntryId, lines) ==
    [i \in 1..Len(lines) |->
        [journal_entry_id |-> journalEntryId,
         account_id |-> lines[i].accountId,
         debit_amount |-> lines[i].debitAmount,
         credit_amount |-> lines[i].creditAmount]]

\* a transaction not begun
NoTrx ==
    [status |-> "none", entryRow |-> FALSE, lineRows |-> FALSE,
     balances |-> <<>>, increments |-> {}]

NoLoc == [journalEntryId |-> 0, i |-> 0, balanceChange |-> 0]

NoBody == [organizationId |-> 0, date |-> 0, lines |-> <<>>]

\* mutant: the balance read and written back without the row's lock
RowLocked_Never(r, row) == FALSE

\* another open transaction holds the lock of this account_balances row
RowLocked(r, row) ==
    \E q \in Reqs \ {r} :
        trx[q].status = "open" /\ row \in DOMAIN trx[q].balances

\* the value of a balance row as transaction r's UPDATE reads it
RowValue(r, row) ==
    IF row \in DOMAIN trx[r].balances
    THEN trx[r].balances[row]
    ELSE account_balances[row]

\* .increment('balance', balanceChange)
increment(balance, change) == balance + change

\* the request arrives: validate(createJournalEntrySchema), then the handler
\* up to its first await
PostReceive(r, b) ==
    /\ pc[r] = "idle"
    /\ body' = [body EXCEPT ![r] = b]
    /\ trx' = [trx EXCEPT ![r] = NoTrx]
    /\ loc' = [loc EXCEPT ![r] = NoLoc]
    /\ err' = [err EXCEPT ![r] = NoError]
    /\ IF ~createJournalEntrySchema(b)
       THEN /\ resp' = [resp EXCEPT ![r] = Response(400, "VALIDATION_ERROR", <<>>)]
            /\ pc' = [pc EXCEPT ![r] = "done"]
       ELSE IF Unbalanced(b.lines)
       THEN /\ resp' = [resp EXCEPT ![r] = UnbalancedResponse(b.lines)]
            /\ pc' = [pc EXCEPT ![r] = "done"]
       ELSE /\ resp' = [resp EXCEPT ![r] = NoResponse]
            /\ pc' = [pc EXCEPT ![r] = "transaction"]
    /\ UNCHANGED <<now, storeVars, regVars, rep>>

\* trx = await db.transaction()
PostTransaction(r) ==
    /\ pc[r] = "transaction"
    /\ trx' = [trx EXCEPT ![r].status = "open"]
    /\ pc' = [pc EXCEPT ![r] = "insertEntry"]
    /\ UNCHANGED <<now, storeVars, regVars, rep, body, loc, err, resp>>

\* mutant: the entry inserted through db instead of trx, outside the transaction
PostInsertEntry_NoTrx(r) ==
    /\ pc[r] = "insertEntry"
    /\ entrySeq < MaxEntries
    /\ entrySeq' = entrySeq + 1
    /\ loc' = [loc EXCEPT ![r].journalEntryId = entrySeq + 1]
    /\ journal_entries' =
          [e \in DOMAIN journal_entries \cup {entrySeq + 1} |->
              IF e = entrySeq + 1
              THEN [organization_id |-> body[r].organizationId,
                    date |-> body[r].date,
                    status |-> "posted"]
              ELSE journal_entries[e]]
    /\ pc' = [pc EXCEPT ![r] = "insertLines"]
    /\ UNCHANGED <<now, accounts, accountSeq, account_balances, journal_entry_lines,
                   applied, regVars, rep, body, trx, err, resp>>

\* await trx('journal_entries').insert({... status: 'posted'}).returning('id')
PostInsertEntry(r) ==
    /\ pc[r] = "insertEntry"
    /\ entrySeq < MaxEntries
    /\ entrySeq' = entrySeq + 1
    /\ loc' = [loc EXCEPT ![r].journalEntryId = entrySeq + 1]
    /\ trx' = [trx EXCEPT ![r].entryRow = TRUE]
    /\ pc' = [pc EXCEPT ![r] = "insertLines"]
    /\ UNCHANGED <<now, accounts, accountSeq, account_balances, journal_entries,
                   journal_entry_lines, applied, regVars, rep, body, err, resp>>

\* await trx('journal_entry_lines').insert(journalEntryLines)
PostInsertLines(r) ==
    /\ pc[r] = "insertLines"
    /\ trx' = [trx EXCEPT ![r].lineRows = TRUE]
    /\ loc' = [loc EXCEPT ![r].i = 1]
    /\ pc' = [pc EXCEPT ![r] = "lookup"]
    /\ UNCHANGED <<now, storeVars, regVars, rep, body, err, resp>>

\* mutant: a line whose account is not found is skipped instead of thrown on
PostLookup_SkipMissing(r) ==
    /\ pc[r] = "lookup"
    /\ LET line == body[r].lines[loc[r].i]
       IN IF line.accountId \in DOMAIN accounts
             /\ accounts[line.accountId].account_type_id \in DOMAIN account_types
          THEN /\ loc' = [loc EXCEPT ![r].balanceChange =
                     IF account_types[accounts[line.accountId].account_type_id].normal_balance
                           = "debit"
                     THEN line.debitAmount - line.creditAmount
                     ELSE line.creditAmount - line.debitAmount]
               /\ pc' = [pc EXCEPT ![r] = "increment"]
          ELSE IF loc[r].i < Len(body[r].lines)
          THEN /\ loc' = [loc EXCEPT ![r].i = @ + 1]
               /\ pc' = pc
          ELSE /\ loc' = loc
               /\ pc' = [pc EXCEPT ![r] = "commit"]
    /\ UNCHANGED <<now, storeVars, regVars, rep, body, trx, err, resp>>

\* for (const line of lines): await trx('accounts').join('account_types', ...)
\*   .where('accounts.id', line.accountId).first(); throw if there is none
PostLookup(r) ==
    /\ pc[r] = "lookup"
    /\ LET line == body[r].lines[loc[r].i]
       IN IF line.accountId \in DOMAIN accounts
             /\ accounts[line.accountId].account_type_id \in DOMAIN account_types
          THEN /\ loc' = [loc EXCEPT ![r].balanceChange =
                     balanceChange(
                       account_types[accounts[line.accountId].account_type_id].normal_balance,
                       line)]
               /\ pc' = [pc EXCEPT ![r] = "increment"]
               /\ err' = err
          ELSE /\ err' = [err EXCEPT ![r] = AccountNotFoundError(line.accountId)]
               /\ pc' = [pc EXCEPT ![r] = "catch"]
               /\ loc' = loc
    /\ UNCHANGED <<now, storeVars, regVars, rep, body, trx, resp>>

\* await trx('account_balances').where({account_id, organization_id})
\*   .increment('balance', balanceChange): an UPDATE of the rows that match,
\* which waits for the row's lock and changes nothing when no row matches
PostIncrement(r) ==
    /\ pc[r] = "increment"
    /\ LET line == body[r].lines[loc[r].i]
           row == <<line.accountId, body[r].organizationId>>
       IN /\ ~RowLocked(r, row)
          /\ IF row \in DOMAIN account_balances
             THEN trx' = [trx EXCEPT
                     ![r].balances =
                        [x \in DOMAIN trx[r].balances \cup {row} |->
                            IF x = row
                            THEN increment(RowValue(r, row), loc[r].balanceChange)
                            ELSE trx[r].balances[x]],
                     ![r].increments = @ \cup
                        {[journal_entry_id |-> loc[r].journalEntryId,
                          line |-> loc[r].i,
                          account_id |-> row[1],
                          organization_id |-> row[2],
                          change |-> loc[r].balanceChange]}]
             ELSE trx' = trx
    /\ IF loc[r].i < Len(body[r].lines)
       THEN /\ loc' = [loc EXCEPT ![r].i = @ + 1]
            /\ pc' = [pc EXCEPT ![r] = "lookup"]
       ELSE /\ loc' = loc
            /\ pc' = [pc EXCEPT ![r] = "commit"]
    /\ UNCHANGED <<now, storeVars, regVars, rep, body, err, resp>>

\* mutant: the commit leaves the transaction's lines in place of the table's
\* rows instead of adding them
PostCommit_Replace(r) ==
    /\ pc[r] = "commit"
    /\ journal_entries' =
          IF trx[r].entryRow
          THEN [e \in DOMAIN journal_entries \cup {loc[r].journalEntryId} |->
                  IF e = loc[r].journalEntryId
                  THEN [organization_id |-> body[r].organizationId,
                        date |-> body[r].date,
                        status |-> "posted"]
                  ELSE journal_entries[e]]
          ELSE journal_entries
    /\ journal_entry_lines' =
          IF trx[r].lineRows
          THEN journalEntryLines(loc[r].journalEntryId, body[r].lines)
          ELSE journal_entry_lines
    /\ account_balances' =
          [row \in DOMAIN account_balances |->
              IF row \in DOMAIN trx[r].balances
              THEN trx[r].balances[row]
              ELSE account_balances[row]]
    /\ applied' = applied \cup trx[r].increments
    /\ trx' = [trx EXCEPT ![r] =
                  [NoTrx EXCEPT !.status = "committed"]]
    /\ pc' = [pc EXCEPT ![r] = "readEntry"]
    /\ UNCHANGED <<now, accounts, accountSeq, entrySeq, regVars, rep, body, loc, err, resp>>

\* await trx.commit(): the transaction's rows become the committed rows
PostCommit(r) ==
    /\ pc[r] = "commit"
    /\ journal_entries' =
          IF trx[r].entryRow
          THEN [e \in DOMAIN journal_entries \cup {loc[r].journalEntryId} |->
                  IF e = loc[r].journalEntryId
                  THEN [organization_id |-> body[r].organizationId,
                        date |-> body[r].date,
                        status |-> "posted"]
                  ELSE journal_entries[e]]
          ELSE journal_entries
    /\ journal_entry_lines' =
          IF trx[r].lineRows
          THEN journal_entry_lines
                 \o journalEntryLines(loc[r].journalEntryId, body[r].lines)
          ELSE journal_entry_lines
    /\ account_balances' =
          [row \in DOMAIN account_balances |->
              IF row \in DOMAIN trx[r].balances
              THEN trx[r].balances[row]
              ELSE account_balances[row]]
    /\ applied' = applied \cup trx[r].increments
    /\ trx' = [trx EXCEPT ![r] =
                  [NoTrx EXCEPT !.status = "committed"]]
    /\ pc' = [pc EXCEPT ![r] = "readEntry"]
    /\ UNCHANGED <<now, accounts, accountSeq, entrySeq, regVars, rep, body, loc, err, resp>>

\* const journalEntry = await db('journal_entries').where('id', journalEntryId).first()
PostReadEntry(r) ==
    /\ pc[r] = "readEntry"
    /\ pc' = [pc EXCEPT ![r] = "readLines"]
    /\ UNCHANGED <<now, storeVars, regVars, rep, body, trx, loc, err, resp>>

\* const createdLines = await db('journal_entry_lines').join('accounts', ...);
\* res.status(201).json(...)
PostReadLines(r) ==
    /\ pc[r] = "readLines"
    /\ resp' = [resp EXCEPT ![r] =
                  Response(201, "",
                           <<totalDebit(body[r].lines), totalCredit(body[r].lines)>>)]
    /\ pc' = [pc EXCEPT ![r] = "done"]
    /\ UNCHANGED <<now, storeVars, regVars, rep, body, trx, loc, err>>

\* the awaits of the handler, each of which the store can fail
PostAwaits ==
    {"transaction", "insertEntry", "insertLines", "lookup", "increment",
     "commit", "readEntry", "readLines"}

\* an await rejects: control passes to the catch block
PostFault(r, e) ==
    /\ pc[r] \in PostAwaits
    /\ err' = [err EXCEPT ![r] = e]
    /\ pc' = [pc EXCEPT ![r] = "catch"]
    /\ UNCHANGED <<now, storeVars, regVars, rep, body, trx, loc, resp>>

\* mutant: the catch block answers without rolling the transaction back
PostCatch_NoRollback(r) ==
    /\ pc[r] = "catch"
    /\ resp' = [resp EXCEPT ![r] = errorHandler(err[r])]
    /\ pc' = [pc EXCEPT ![r] = "done"]
    /\ UNCHANGED <<now, storeVars, regVars, rep, body, trx, loc, err>>

\* catch (error) { if (trx) await trx.rollback(); next(error) }
PostCatch(r) ==
    /\ pc[r] = "catch"
    /\ trx' = IF trx[r].status = "open"
              THEN [trx EXCEPT ![r] = [NoTrx EXCEPT !.status = "rolledback"]]
              ELSE trx
    /\ resp' = [resp EXCEPT ![r] = errorHandler(err[r])]
    /\ pc' = [pc EXCEPT ![r] = "done"]
    /\ UNCHANGED <<now, storeVars, regVars, rep, body, loc, err>>


\* -------------------------------------------------------- account registry

\* JavaScript truthiness of an id-valued field
Truthy(x) == x \notin {0, Null, Undefined}

\* a validated body field (a number) and a route parameter (a string)
JsNumber(n) == [type |-> "number", value |-> <<n>>]
JsString(n) == [type |-> "string", value |-> Digits(n)]

\* a === b
strictEquals(a, b) == a.type = b.type /\ a.value = b.value

NoRequest ==
    [op |-> "none", organizationId |-> 0, accountId |-> 0, code |-> UndefinedString,
     accountTypeId |-> Undefined, accountCategoryId |-> Undefined,
     parentAccountId |-> Undefined]

\* POST /accounts with a body that passes createAccountSchema
CreateRequest(org, code, typeId, categoryId, parentId) ==
    [op |-> "create", organizationId |-> org, accountId |-> 0, code |-> code,
     accountTypeId |-> typeId, accountCategoryId |-> categoryId,
     parentAccountId |-> parentId]

\* PUT /accounts/:accountId/organization/:organizationId with a body that
\* passes updateAccountSchema
UpdateRequest(org, accountId, code, typeId, categoryId, parentId) ==
    [op |-> "update", organizationId |-> org, accountId |-> accountId, code |-> code,
     accountTypeId |-> typeId, accountCategoryId |-> categoryId,
     parentAccountId |-> parentId]

\* mutant: the duplicate-code lookup never finds a row
AccountWithCode_Never(org, code, exceptId) == FALSE

\* db('accounts').where({organization_id, code}).first(), optionally whereNot({id})
AccountWithCode(org, code, exceptId) ==
    \E id \in DOMAIN accounts :
        /\ id # exceptId
        /\ accounts[id].organization_id = org
        /\ accounts[id].code = code

\* db('account_categories').where({id, organization_id}).first()
CategoryInOrg(categoryId, org) ==
    /\ categoryId \in DOMAIN account_categories
    /\ account_categories[categoryId].organization_id = org

\* db('accounts').where({id, organization_id}).first()
AccountInOrg(id, org) ==
    id \in DOMAIN accounts /\ accounts[id].organization_id = org

\* the checks of createAccount, in the handler's order: the code of the first
\* one that fails, or "" when the insert is reached
createAccountError(rq) ==
    IF AccountWithCode(rq.organizationId, rq.code, 0)
    THEN "DUPLICATE_ACCOUNT_CODE"
    ELSE IF rq.accountTypeId \notin DOMAIN account_types
    THEN "INVALID_ACCOUNT_TYPE"
    ELSE IF ~CategoryInOrg(rq.accountCategoryId, rq.organizationId)
    THEN "INVALID_ACCOUNT_CATEGORY"
    ELSE IF Truthy(rq.parentAccountId)
            /\ ~AccountInOrg(rq.parentAccountId, rq.organizationId)
    THEN "INVALID_PARENT_ACCOUNT"
    ELSE ""

\* the checks of updateAccount, in the handler's order
updateAccountError(rq) ==
    IF ~AccountInOrg(rq.accountId, rq.organizationId)
    THEN "ACCOUNT_NOT_FOUND"
    ELSE IF /\ rq.code # UndefinedString
            /\ rq.code # accounts[rq.accountId].code
            /\ AccountWithCode(rq.organizationId, rq.code, rq.accountId)
    THEN "DUPLICATE_ACCOUNT_CODE"
    ELSE IF Truthy(rq.accountTypeId) /\ rq.accountTypeId \notin DOMAIN account_types
    THEN "INVALID_ACCOUNT_TYPE"
    ELSE IF Truthy(rq.accountCategoryId)
            /\ ~CategoryInOrg(rq.accountCategoryId, rq.organizationId)
    THEN "INVALID_ACCOUNT_CATEGORY"
    ELSE IF /\ rq.parentAccountId # Undefined
            /\ strictEquals(JsNumber(rq.parentAccountId), JsString(rq.accountId))
    THEN "INVALID_PARENT_ACCOUNT"
    ELSE IF /\ rq.parentAccountId # Undefined
            /\ rq.parentAccountId # Null
            /\ ~AccountInOrg(rq.parentAccountId, rq.organizationId)
    THEN "INVALID_PARENT_ACCOUNT"
    ELSE ""

\* the row db('accounts').insert(...) writes
insertedAccount(rq) ==
    [organization_id |-> rq.organizationId,
     code |-> rq.code,
     account_type_id |-> rq.accountTypeId,
     account_category_id |-> rq.accountCategoryId,
     parent_account_id |->
        IF rq.parentAccountId = Undefined THEN Null ELSE rq.parentAccountId,
     updated_at |-> now]

\* mutant: the row replaced by the body, fields not supplied set to null
updatedAccount_Replace(row, rq) ==
    [organization_id |-> row.organization_id,
     code |-> rq.code,
     account_type_id |-> IF rq.accountTypeId # Undefined THEN rq.accountTypeId ELSE Null,
     account_category_id |->
        IF rq.accountCategoryId # Undefined THEN rq.accountCategoryId ELSE Null,
     parent_account_id |->
        IF rq.parentAccountId # Undefined THEN rq.parentAccountId ELSE Null,
     updated_at |-> now]

\* updateData merged into the row: only the supplied fields change, and
\* updateData.updated_at = new Date()
updatedAccount(row, rq) ==
    [organization_id |-> row.organization_id,
     code |-> IF rq.code # UndefinedString THEN rq.code ELSE row.code,
     account_type_id |->
        IF rq.accountTypeId # Undefined THEN rq.accountTypeId ELSE row.account_type_id,
     account_category_id |->
        IF rq.accountCategoryId # Undefined
        THEN rq.accountCategoryId ELSE row.account_category_id,
     parent_account_id |->
        IF rq.parentAccountId # Undefined
        THEN rq.parentAccountId ELSE row.parent_account_id,
     updated_at |-> now]

\* a registry request arrives
AcctReceive(a, rq) ==
    /\ apc[a] = "idle"
    /\ areq' = [areq EXCEPT ![a] = rq]
    /\ aresp' = [aresp EXCEPT ![a] = NoResponse]
    /\ apc' = [apc EXCEPT ![a] = "check"]
    /\ UNCHANGED <<now, storeVars, postVars, rep>>

\* createAccount: the reads before the insert (duplicate code, type,
\* category, parent), answering 400 at the first that fails
CreateAccountCheck(a) ==
    /\ apc[a] = "check"
    /\ areq[a].op = "create"
    /\ IF createAccountError(areq[a]) # ""
       THEN /\ aresp' = [aresp EXCEPT ![a] =
                            Response(400, createAccountError(areq[a]), <<>>)]
            /\ apc' = [apc EXCEPT ![a] = "done"]
       ELSE /\ aresp' = aresp
            /\ apc' = [apc EXCEPT ![a] = "write"]
    /\ UNCHANGED <<now, storeVars, postVars, rep, areq>>

\* createAccount: db('accounts').insert(...).returning('id'), the read back
\* and the 201 response; no account_balances row is written
CreateAccountInsert(a) ==
    /\ apc[a] = "write"
    /\ areq[a].op = "create"
    /\ accountSeq < MaxAccounts
    /\ accountSeq' = accountSeq + 1
    /\ accounts' = [id \in DOMAIN accounts \cup {accountSeq + 1} |->
                       IF id = accountSeq + 1
                       THEN insertedAccount(areq[a])
                       ELSE accounts[id]]
    /\ aresp' = [aresp EXCEPT ![a] = Response(201, "", <<accountSeq + 1>>)]
    /\ apc' = [apc EXCEPT ![a] = "done"]
    /\ UNCHANGED <<now, account_balances, journal_entries, journal_entry_lines,
                   entrySeq, applied, postVars, rep, areq>>

\* updateAccount: the reads before the update (account, duplicate code, type,
\* category, parent), answering 404 or 400 at the first that fails
UpdateAccountCheck(a) ==
    /\ apc[a] = "check"
    /\ areq[a].op = "update"
    /\ IF updateAccountError(areq[a]) # ""
       THEN /\ aresp' = [aresp EXCEPT ![a] =
                            Response(IF updateAccountError(areq[a]) = "ACCOUNT_NOT_FOUND"
                                     THEN 404 ELSE 400,
                                     updateAccountError(areq[a]), <<>>)]
            /\ apc' = [apc EXCEPT ![a] = "done"]
       ELSE /\ aresp' = aresp
            /\ apc' = [apc EXCEPT ![a] = "write"]
    /\ UNCHANGED <<now, storeVars, postVars, rep, areq>>

\* mutant: a change of the account's normal balance also flips the sign of its
\* stored balance
UpdateAccountWrite_Rebalance(a) ==
    /\ apc[a] = "write"
    /\ areq[a].op = "update"
    /\ accounts' = [accounts EXCEPT ![areq[a].accountId] = updatedAccount(@, areq[a])]
    /\ account_balances' =
          [row \in DOMAIN account_balances |->
              IF /\ row[1] = areq[a].accountId
                 /\ areq[a].accountTypeId \in DOMAIN account_types
                 /\ account_types[areq[a].accountTypeId].normal_balance
                       # account_types[accounts[areq[a].accountId].account_type_id].normal_balance
              THEN 0 - account_balances[row]
              ELSE account_balances[row]]
    /\ aresp' = [aresp EXCEPT ![a] =
                    IF accounts'[areq[a].accountId].account_type_id \in DOMAIN account_types
                    THEN Response(200, "", <<areq[a].accountId>>)
                    ELSE errorHandler(ReadBackError)]
    /\ apc' = [apc EXCEPT ![a] = "done"]
    /\ UNCHANGED <<now, accountSeq, journal_entries, journal_entry_lines,
                   entrySeq, applied, postVars, rep, areq>>

\* updateAccount: db('accounts').where({id: accountId}).update(updateData),
\* the read back (which joins account_types) and the 200 response
UpdateAccountWrite(a) ==
    /\ apc[a] = "write"
    /\ areq[a].op = "update"
    /\ accounts' = [accounts EXCEPT ![areq[a].accountId] = updatedAccount(@, areq[a])]
    /\ aresp' = [aresp EXCEPT ![a] =
                    IF accounts'[areq[a].accountId].account_type_id \in DOMAIN account_types
                    THEN Response(200, "", <<areq[a].accountId>>)
                    ELSE errorHandler(ReadBackError)]
    /\ apc' = [apc EXCEPT ![a] = "done"]
    /\ UNCHANGED <<now, accountSeq, account_balances, journal_entries, journal_entry_lines,
                   entrySeq, applied, postVars, rep, areq>>

\* an await of a registry handler rejects: next(error)
AcctFault(a, e) ==
    /\ apc[a] \in {"check", "write"}
    /\ aresp' = [aresp EXCEPT ![a] = errorHandler(e)]
    /\ apc' = [apc EXCEPT ![a] = "done"]
    /\ UNCHANGED <<now, storeVars, postVars, rep, areq>>

\* ----------------------------------------------------------- report engine

\* the accounts of an organization joined with account_types (inner join)
TrialBalanceAccounts(org) ==
    {id \in DOMAIN accounts :
        /\ accounts[id].organization_id = org
        /\ accounts[id].account_type_id \in DOMAIN account_types}

\* account.balance = account.balance || 0 over the left join with account_balances
joinedBalance(id) ==
    IF <<id, accounts[id].organization_id>> \in DOMAIN account_balances
    THEN account_balances[<<id, accounts[id].organization_id>>]
    ELSE 0

normalBalance(id) == account_types[accounts[id].account_type_id].normal_balance

\* the debit column of one account of the trial balance
debitBalance(id) ==
    IF normalBalance(id) = "debit"
    THEN IF joinedBalance(id) >= 0 THEN joinedBalance(id) ELSE 0
    ELSE IF joinedBalance(id) >= 0 THEN 0 ELSE Abs(joinedBalance(id))

\* the credit column of one account of the trial balance
creditBalance(id) ==
    IF normalBalance(id) = "debit"
    THEN IF joinedBalance(id) >= 0 THEN 0 ELSE Abs(joinedBalance(id))
    ELSE IF joinedBalance(id) >= 0 THEN joinedBalance(id) ELSE 0

\* totals.totalDebits of GET /reports/trial-balance
totalDebits(org) == SumFn([id \in TrialBalanceAccounts(org) |-> debitBalance(id)])

\* totals.totalCredits of GET /reports/trial-balance
totalCredits(org) == SumFn([id \in TrialBalanceAccounts(org) |-> creditBalance(id)])

\* totals.difference of GET /reports/trial-balance
difference(org) == Abs(totalDebits(org) - totalCredits(org))

\* ------------------------------------------------------------ ledger view

\* a report request's locals before any query has answered
NoReportLoc ==
    [normalBalance |-> "", count |-> 0, transactions |-> <<>>, runningBalance |-> 0,
     revenueAccounts |-> {}, expenseAccounts |-> {},
     totalRevenue |-> 0, totalExpenses |-> 0]

\* no response sent yet
NoReportResponse ==
    [status |-> 0, code |-> "", transactions |-> <<>>, total |-> 0, pages |-> 0,
     totalRevenue |-> 0, totalExpenses |-> 0, netIncome |-> 0]

\* req.params and req.query of a report request (absent query fields are Undefined)
ReportRequest(accountId, organizationId, startDate, endDate, page, limit) ==
    [accountId |-> accountId, organizationId |-> organizationId,
     startDate |-> startDate, endDate |-> endDate, page |-> page, limit |-> limit]

\* what the store held when the request arrived
StoreSeen == [lines |-> Len(journal_entry_lines), accounts |-> accounts]

\* no report request in flight
NoReport ==
    [pc |-> "idle", op |-> "none",
     req |-> ReportRequest(0, 0, Undefined, Undefined, 1, 1),
     loc |-> NoReportLoc, resp |-> NoReportResponse,
     seen |-> [lines |-> 0, accounts |-> <<>>]]

\* res.status(status).json({error: {code}})
ReportError(status, code) ==
    [NoReportResponse EXCEPT !.status = status, !.code = code]

\* journal_entries.id and journal_entries.date of the joined row of line k
entryOf(k) == journal_entry_lines[k].journal_entry_id
dateOf(k) == journal_entries[entryOf(k)].date

\* journal_entry_lines join journal_entries where account_id, organization_id,
\* status 'posted', and the date filters that are given
LedgerRows(accountId, orgId, startDate, endDate) ==
    {k \in DOMAIN journal_entry_lines :
        /\ journal_entry_lines[k].account_id = accountId
        /\ journal_entries[entryOf(k)].organization_id = orgId
        /\ journal_entries[entryOf(k)].status = "posted"
        /\ (Truthy(startDate) => dateOf(k) >= startDate)
        /\ (Truthy(endDate) => dateOf(k) <= endDate)}

\* the rows of S that orderBy(date desc).orderBy(id desc) may put first
Newest(S) ==
    {k \in S : \A j \in S :
        \/ dateOf(j) < dateOf(k)
        \/ (dateOf(j) = dateOf(k) /\ entryOf(j) <= entryOf(k))}

\* every order .orderBy('journal_entries.date', 'desc').orderBy('journal_entries.id', 'desc')
\* can return S in: lines of one entry come in an order the store chooses
RECURSIVE OrderByDateIdDesc(_)
OrderByDateIdDesc(S) ==
    IF S = {} THEN {<<>>}
    ELSE UNION {{<<k>> \o t : t \in OrderByDateIdDesc(S \ {k})} : k \in Newest(S)}

\* .limit(limit).offset(offset) of an ordered result
LimitOffset(s, limit, offset) ==
    SubSeq(s, offset + 1, IF offset + limit < Len(s) THEN offset + limit ELSE Len(s))

\* mutant: the credit side taken for a debit-normal account
ledgerDelta_Swapped(nb, k) ==
    IF nb = "debit"
    THEN journal_entry_lines[k].credit_amount - journal_entry_lines[k].debit_amount
    ELSE journal_entry_lines[k].debit_amount - journal_entry_lines[k].credit_amount

\* what one row adds to runningBalance under account.normalBalance
ledgerDelta(nb, k) ==
    IF nb = "debit"
    THEN journal_entry_lines[k].debit_amount - journal_entry_lines[k].credit_amount
    ELSE journal_entry_lines[k].credit_amount - journal_entry_lines[k].debit_amount

\* for (const transaction of previousTransactions) runningBalance += ...
RECURSIVE previousBalance(_, _)
previousBalance(nb, S) ==
    IF S = {} THEN 0
    ELSE LET k == CHOOSE j \in S : TRUE
         IN ledgerDelta(nb, k) + previousBalance(nb, S \ {k})

\* transactions.forEach(transaction => { runningBalance += ...;
\*                                       transaction.balance = runningBalance })
RECURSIVE runningBalances(_, _, _)
runningBalances(nb, ts, runningBalance) ==
    IF ts = <<>> THEN <<>>
    ELSE LET b == runningBalance + ledgerDelta(nb, Head(ts))
         IN <<[line |-> Head(ts), balance |-> b]>> \o runningBalances(nb, Tail(ts), b)

\* transactions.reverse()
reverse(s) == [i \in 1..Len(s) |-> s[Len(s) + 1 - i]]

\* Math.ceil(count / limit)
ceil(count, limit) == (count + limit - 1) \div limit

\* res.json({data: {account, transactions, pagination}})
LedgerResponse(r, runningBalance) ==
    [NoReportResponse EXCEPT
        !.status = 200,
        !.transactions =
            reverse(runningBalances(r.loc.normalBalance, r.loc.transactions,
                                    runningBalance)),
        !.total = r.loc.count,
        !.pages = ceil(r.loc.count, r.req.limit)]

\* GET /accounts/:accountId/organization/:organizationId arrives
LedgerReceive(rq) ==
    /\ rep.pc = "idle"
    /\ rep' = [NoReport EXCEPT !.pc = "account", !.op = "ledger", !.req = rq,
                               !.seen = StoreSeen]
    /\ UNCHANGED <<now, storeVars, postVars, regVars>>

\* const account = await db('accounts').join('account_types')...first()
LedgerAccount ==
    /\ rep.op = "ledger" /\ rep.pc = "account"
    /\ rep' =
          IF /\ rep.req.accountId \in DOMAIN accounts
             /\ accounts[rep.req.accountId].organization_id = rep.req.organizationId
             /\ accounts[rep.req.accountId].account_type_id \in DOMAIN account_types
          THEN [rep EXCEPT !.pc = "count",
                           !.loc.normalBalance = normalBalance(rep.req.accountId)]
          ELSE [rep EXCEPT !.pc = "done", !.resp = ReportError(404, "ACCOUNT_NOT_FOUND")]
    /\ UNCHANGED <<now, storeVars, postVars, regVars>>

\* const [{ count }] = await db('journal_entry_lines')...count(...)
LedgerCount ==
    /\ rep.op = "ledger" /\ rep.pc = "count"
    /\ rep' = [rep EXCEPT
                  !.pc = "transactions",
                  !.loc.count =
                      Cardinality(LedgerRows(rep.req.accountId, rep.req.organizationId,
                                             rep.req.startDate, rep.req.endDate))]
    /\ UNCHANGED <<now, storeVars, postVars, regVars>>

\* const transactions = await query.select(...).limit(limit).offset((page - 1) * limit);
\* with page 1 and no startDate the balances and the response follow at once
LedgerTransactions ==
    /\ rep.op = "ledger" /\ rep.pc = "transactions"
    /\ \E s \in OrderByDateIdDesc(LedgerRows(rep.req.accountId, rep.req.organizationId,
                                             rep.req.startDate, rep.req.endDate)) :
          LET r == [rep EXCEPT
                       !.loc.transactions =
                           LimitOffset(s, rep.req.limit,
                                       (rep.req.page - 1) * rep.req.limit),
                       !.loc.runningBalance = 0]
          IN rep' = IF rep.req.page > 1 \/ Truthy(rep.req.startDate)
                    THEN [r EXCEPT !.pc = "previous"]
                    ELSE [r EXCEPT !.pc = "done",
                                   !.resp = LedgerResponse(r, r.loc.runningBalance)]
    /\ UNCHANGED <<now, storeVars, postVars, regVars>>

\* const previousTransactions = await balanceQuery.select(...); the seed, the
\* balances and the response
LedgerPrevious ==
    /\ rep.op = "ledger" /\ rep.pc = "previous"
    /\ \E s \in OrderByDateIdDesc(LedgerRows(rep.req.accountId, rep.req.organizationId,
                                             Undefined, Undefined)) :
          LET previousTransactions ==
                  IF Truthy(rep.req.startDate)
                  THEN {k \in LedgerRows(rep.req.accountId, rep.req.organizationId,
                                         Undefined, Undefined) :
                           dateOf(k) < rep.req.startDate}
                  ELSE {s[i] : i \in ((rep.req.page - 1) * rep.req.limit + 1)..Len(s)}
              r == [rep EXCEPT
                       !.loc.runningBalance =
                           previousBalance(rep.loc.normalBalance, previousTransactions)]
          IN rep' = [r EXCEPT !.pc = "done",
                              !.resp = LedgerResponse(r, r.loc.runningBalance)]
    /\ UNCHANGED <<now, storeVars, postVars, regVars>>

\* ------------------------------------------------------- income statement

\* accounts join account_types where organization_id and account_types.name
AccountsOfType(orgId, name) ==
    {id \in DOMAIN accounts :
        /\ accounts[id].organization_id = orgId
        /\ accounts[id].account_type_id \in DOMAIN account_types
        /\ account_types[accounts[id].account_type_id].name = name}

\* journal_entry_lines join journal_entries whereIn account_id, where
\* organization_id, status 'posted', whereBetween date [startDate, endDate]
IncomeRows(accountIds, orgId, startDate, endDate) ==
    {k \in DOMAIN journal_entry_lines :
        /\ journal_entry_lines[k].account_id \in accountIds
        /\ journal_entries[entryOf(k)].organization_id = orgId
        /\ journal_entries[entryOf(k)].status = "posted"
        /\ dateOf(k) >= startDate
        /\ dateOf(k) <= endDate}

\* revenueByAccount[accountId] += credit_amount - debit_amount
revenueByAccount(S, id) ==
    SumFn([k \in {j \in S : journal_entry_lines[j].account_id = id} |->
              journal_entry_lines[k].credit_amount - journal_entry_lines[k].debit_amount])

\* expensesByAccount[accountId] += debit_amount - credit_amount
expensesByAccount(S, id) ==
    SumFn([k \in {j \in S : journal_entry_lines[j].account_id = id} |->
              journal_entry_lines[k].debit_amount - journal_entry_lines[k].credit_amount])

\* const netIncome = totalRevenue - totalExpenses; res.json({...})
IncomeResponse(r) ==
    [NoReportResponse EXCEPT
        !.status = 200,
        !.totalRevenue = r.loc.totalRevenue,
        !.totalExpenses = r.loc.totalExpenses,
        !.netIncome = r.loc.totalRevenue - r.loc.totalExpenses]

\* the request after the account queries: the transaction queries are awaited
\* only for a non-empty list of account ids
IncomeAfterAccounts(r) ==
    IF r.loc.revenueAccounts # {} THEN [r EXCEPT !.pc = "revenueTransactions"]
    ELSE IF r.loc.expenseAccounts # {} THEN [r EXCEPT !.pc = "expenseTransactions"]
    ELSE [r EXCEPT !.pc = "done", !.resp = IncomeResponse(r)]

\* the request after the revenue transactions
IncomeAfterRevenue(r) ==
    IF r.loc.expenseAccounts # {} THEN [r EXCEPT !.pc = "expenseTransactions"]
    ELSE [r EXCEPT !.pc = "done", !.resp = IncomeResponse(r)]

\* GET /income-statement/organization/:organizationId arrives
IncomeReceive(rq) ==
    /\ rep.pc = "idle"
    /\ rep' =
          IF ~Truthy(rq.startDate) \/ ~Truthy(rq.endDate)
          THEN [NoReport EXCEPT !.pc = "done", !.op = "income", !.req = rq,
                                !.seen = StoreSeen,
                                !.resp = ReportError(400, "MISSING_DATE_PARAMETERS")]
          ELSE [NoReport EXCEPT !.pc = "revenueAccounts", !.op = "income", !.req = rq,
                                !.seen = StoreSeen]
    /\ UNCHANGED <<now, storeVars, postVars, regVars>>

\* const revenueAccounts = await db('accounts')...where('account_types.name': 'Revenue')
IncomeRevenueAccounts ==
    /\ rep.op = "income" /\ rep.pc = "revenueAccounts"
    /\ rep' = [rep EXCEPT
                  !.pc = "expenseAccounts",
                  !.loc.revenueAccounts = AccountsOfType(rep.req.organizationId, "Revenue")]
    /\ UNCHANGED <<now, storeVars, postVars, regVars>>

\* const expenseAccounts = await db('accounts')...where('account_types.name': 'Expense')
IncomeExpenseAccounts ==
    /\ rep.op = "income" /\ rep.pc = "expenseAccounts"
    /\ rep' = IncomeAfterAccounts(
                 [rep EXCEPT !.loc.expenseAccounts =
                                 AccountsOfType(rep.req.organizationId, "Expense")])
    /\ UNCHANGED <<now, storeVars, postVars, regVars>>

\* const revenueTransactions = await ...; totalRevenue += account.balance
IncomeRevenueTransactions ==
    /\ rep.op = "income" /\ rep.pc = "revenueTransactions"
    /\ LET S == IncomeRows(rep.loc.revenueAccounts, rep.req.organizationId,
                           rep.req.startDate, rep.req.endDate)
       IN rep' = IncomeAfterRevenue(
                    [rep EXCEPT !.loc.totalRevenue =
                        SumFn([id \in rep.loc.revenueAccounts |-> revenueByAccount(S, id)])])
    /\ UNCHANGED <<now, storeVars, postVars, regVars>>

\* const expenseTransactions = await ...; totalExpenses += account.balance
IncomeExpenseTransactions ==
    /\ rep.op = "income" /\ rep.pc = "expenseTransactions"
    /\ LET S == IncomeRows(rep.loc.expenseAccounts, rep.req.organizationId,
                           rep.req.startDate, rep.req.endDate)
           r == [rep EXCEPT !.loc.totalExpenses =
                    SumFn([id \in rep.loc.expenseAccounts |-> expensesByAccount(S, id)])]
       IN rep' = [r EXCEPT !.pc = "done", !.resp = IncomeResponse(r)]
    /\ UNCHANGED <<now, storeVars, postVars, regVars>>

\* ----------------------------------------------------------- trial balance

\* account_categories.name over the left join, 'Uncategorized' when there is none
categoryName(id) ==
    IF accounts[id].account_category_id \in DOMAIN account_categories
    THEN account_categories[accounts[id].account_category_id].name
    ELSE "Uncategorized"

\* one row of the trial balance query with its debit and credit columns
trialAccount(id) ==
    [id |-> id,
     accountTypeName |-> account_types[accounts[id].account_type_id].name,
     accountCategoryName |-> categoryName(id),
     normalBalance |-> normalBalance(id),
     balance |-> joinedBalance(id),
     debitBalance |-> debitBalance(id),
     creditBalance |-> creditBalance(id)]

\* const groupedAccounts = {}
NoGroups == [name \in {} |-> 0]

\* groupedAccounts[account.accountTypeName] as first created
NewTypeGroup(account) ==
    [name |-> account.accountTypeName, normalBalance |-> account.normalBalance,
     categories |-> NoGroups, totalDebit |-> 0, totalCredit |-> 0]

\* typeGroup.categories[categoryName] as first created
NewCategoryGroup(account) ==
    [name |-> account.accountCategoryName, accounts |-> {},
     totalDebit |-> 0, totalCredit |-> 0]

\* obj[key] = value
Put(obj, key, value) ==
    [k \in DOMAIN obj \cup {key} |-> IF k = key THEN value ELSE obj[k]]

\* mutant: the category total takes the debit column on both sides
addToCategory_DebitOnly(categoryGroup, account) ==
    [categoryGroup EXCEPT
        !.accounts = @ \cup {account},
        !.totalDebit = @ + account.debitBalance,
        !.totalCredit = @ + account.debitBalance]

\* categoryGroup.accounts.push(account); categoryGroup.totalDebit += ...;
\* categoryGroup.totalCredit += ... (the array is held as the set of its rows)
addToCategory(categoryGroup, account) ==
    [categoryGroup EXCEPT
        !.accounts = @ \cup {account},
        !.totalDebit = @ + account.debitBalance,
        !.totalCredit = @ + account.creditBalance]

\* the body of accounts.forEach for one account: its type group and category
\* group are created when absent, the account is added and the totals updated
groupAccount(groupedAccounts, account) ==
    LET t == account.accountTypeName
        c == account.accountCategoryName
        typeGroup == IF t \in DOMAIN groupedAccounts
                     THEN groupedAccounts[t] ELSE NewTypeGroup(account)
        categoryGroup == IF c \in DOMAIN typeGroup.categories
                         THEN typeGroup.categories[c] ELSE NewCategoryGroup(account)
    IN Put(groupedAccounts, t,
           [typeGroup EXCEPT
               !.categories = Put(@, c, addToCategory(categoryGroup, account)),
               !.totalDebit = @ + account.debitBalance,
               !.totalCredit = @ + account.creditBalance])

\* accounts.forEach(account => {...}) over the rows of the query
RECURSIVE groupAccounts(_, _)
groupAccounts(S, groupedAccounts) ==
    IF S = {} THEN groupedAccounts
    ELSE LET id == CHOOSE x \in S : TRUE
         IN groupAccounts(S \ {id}, groupAccount(groupedAccounts, trialAccount(id)))

\* res.json({data: {trialBalance, totals: {totalDebits, totalCredits, difference}}})
TrialBalanceResponse(org) ==
    [status |-> 200, code |-> "",
     trialBalance |-> groupAccounts(TrialBalanceAccounts(org), NoGroups),
     totalDebits |-> totalDebits(org),
     totalCredits |-> totalCredits(org),
     difference |-> difference(org)]

\* GET /trial-balance/organization/:organizationId arrives
TrialReceive(rq) ==
    /\ rep.pc = "idle"
    /\ rep' = [NoReport EXCEPT !.pc = "trialAccounts", !.op = "trial", !.req = rq,
                               !.seen = StoreSeen]
    /\ UNCHANGED <<now, storeVars, postVars, regVars>>

\* const accounts = await query.select(...); the grouping, the totals and
\* the response
TrialAccounts ==
    /\ rep.op = "trial" /\ rep.pc = "trialAccounts"
    /\ rep' = [rep EXCEPT !.pc = "done",
                          !.resp = TrialBalanceResponse(rep.req.organizationId)]
    /\ UNCHANGED <<now, storeVars, postVars, regVars>>

\* ------------------------------------------------------ journal entry reads

\* journal_entries where organization_id and the date filters that are given
EntryRows(orgId, startDate, endDate) ==
    {e \in DOMAIN journal_entries :
        /\ journal_entries[e].organization_id = orgId
        /\ (Truthy(startDate) => journal_entries[e].date >= startDate)
        /\ (Truthy(endDate) => journal_entries[e].date <= endDate)}

\* .orderBy('date', 'desc').orderBy('id', 'desc') of a set of entries
RECURSIVE OrderEntriesDesc(_)
OrderEntriesDesc(S) ==
    IF S = {} THEN <<>>
    ELSE LET e == CHOOSE x \in S : \A y \in S :
                     \/ journal_entries[y].date < journal_entries[x].date
                     \/ (journal_entries[y].date = journal_entries[x].date /\ y <= x)
         IN <<e>> \o OrderEntriesDesc(S \ {e})

\* the rows of journal_entry_lines of entry e
LinesOfEntry(e) ==
    {k \in DOMAIN journal_entry_lines : journal_entry_lines[k].journal_entry_id = e}

\* sum('debit_amount') and sum('credit_amount') grouped by journal_entry_id;
\* an entry without lines takes {totalDebit: 0, totalCredit: 0}
entryTotals(e) ==
    [id |-> e,
     totalDebit |-> SumFn([k \in LinesOfEntry(e) |-> journal_entry_lines[k].debit_amount]),
     totalCredit |-> SumFn([k \in LinesOfEntry(e) |-> journal_entry_lines[k].credit_amount])]

\* res.json({data: journalEntries, pagination})
ListResponse(r, data) ==
    [NoReportResponse EXCEPT
        !.status = 200,
        !.transactions = data,
        !.total = r.loc.count,
        !.pages = ceil(r.loc.count, r.req.limit)]

\* GET /organization/:organizationId arrives
ListReceive(rq) ==
    /\ rep.pc = "idle"
    /\ rep' = [NoReport EXCEPT !.pc = "listCount", !.op = "list", !.req = rq,
                               !.seen = StoreSeen]
    /\ UNCHANGED <<now, storeVars, postVars, regVars>>

\* const [{ count }] = await db('journal_entries')...count('id as count')
ListCount ==
    /\ rep.op = "list" /\ rep.pc = "listCount"
    /\ rep' = [rep EXCEPT
                  !.pc = "listEntries",
                  !.loc.count = Cardinality(EntryRows(rep.req.organizationId,
                                                      rep.req.startDate, rep.req.endDate))]
    /\ UNCHANGED <<now, storeVars, postVars, regVars>>

\* const journalEntries = await query.select(...).limit(limit).offset(...);
\* with no entry on the page the response follows at once
ListEntries ==
    /\ rep.op = "list" /\ rep.pc = "listEntries"
    /\ LET journalEntries ==
               LimitOffset(OrderEntriesDesc(EntryRows(rep.req.organizationId,
                                                      rep.req.startDate, rep.req.endDate)),
                           rep.req.limit, (rep.req.page - 1) * rep.req.limit)
           r == [rep EXCEPT !.loc.transactions = journalEntries]
       IN rep' = IF Len(journalEntries) > 0
                 THEN [r EXCEPT !.pc = "listTotals"]
                 ELSE [r EXCEPT !.pc = "done", !.resp = ListResponse(r, <<>>)]
    /\ UNCHANGED <<now, storeVars, postVars, regVars>>

\* const journalEntryTotals = await db('journal_entry_lines')...groupBy(...);
\* the totals are added to the entries and the response is sent
ListTotals ==
    /\ rep.op = "list" /\ rep.pc = "listTotals"
    /\ rep' = [rep EXCEPT
                  !.pc = "done",
                  !.resp = ListResponse(rep,
                              [i \in 1..Len(rep.loc.transactions) |->
                                  entryTotals(rep.loc.transactions[i])])]
    /\ UNCHANGED <<now, storeVars, postVars, regVars>>

\* req.params of GET /:id/organization/:organizationId
EntryRequest(id, organizationId) ==
    [ReportRequest(0, organizationId, Undefined, Undefined, 1, 1) EXCEPT !.accountId = id]

\* GET /:id/organization/:organizationId arrives (the request's accountId
\* field holds req.params.id)
GetReceive(rq) ==
    /\ rep.pc = "idle"
    /\ rep' = [NoReport EXCEPT !.pc = "getEntry", !.op = "get", !.req = rq,
                               !.seen = StoreSeen]
    /\ UNCHANGED <<now, storeVars, postVars, regVars>>

\* const journalEntry = await db('journal_entries').where({id, organization_id}).first()
GetEntry ==
    /\ rep.op = "get" /\ rep.pc = "getEntry"
    /\ rep' =
          IF /\ rep.req.accountId \in DOMAIN journal_entries
             /\ journal_entries[rep.req.accountId].organization_id = rep.req.organizationId
          THEN [rep EXCEPT !.pc = "getLines"]
          ELSE [rep EXCEPT !.pc = "done",
                           !.resp = ReportError(404, "JOURNAL_ENTRY_NOT_FOUND")]
    /\ UNCHANGED <<now, storeVars, postVars, regVars>>

\* const journalEntryLines = await db('journal_entry_lines').join('accounts', ...)
\*   .where('journal_entry_id', entryId); the totals and the response
GetLines ==
    /\ rep.op = "get" /\ rep.pc = "getLines"
    /\ LET rows == {k \in LinesOfEntry(rep.req.accountId) :
                       journal_entry_lines[k].account_id \in DOMAIN accounts}
       IN rep' = [rep EXCEPT
                     !.pc = "done",
                     !.resp =
                         [status |-> 200, code |-> "",
                          lines |-> [i \in 1..Cardinality(rows) |->
                                        CHOOSE k \in rows :
                                            Cardinality({j \in rows : j < k}) = i - 1],
                          totalDebit |->
                              SumFn([k \in rows |-> journal_entry_lines[k].debit_amount]),
                          totalCredit |->
                              SumFn([k \in rows |-> journal_entry_lines[k].credit_amount])]]
    /\ UNCHANGED <<now, storeVars, postVars, regVars>>

\* an await of a report handler rejects: catch (error) { next(error) }
ReportFault(e) ==
    /\ rep.pc \notin {"idle", "done"}
    /\ rep' = [rep EXCEPT !.pc = "done",
                          !.resp = ReportError(errorHandler(e).status, errorHandler(e).code)]
    /\ UNCHANGED <<now, storeVars, postVars, regVars>>

\* the response is out and the report request ends
ReportEnd ==
    /\ rep.pc = "done"
    /\ rep' = NoReport
    /\ UNCHANGED <<now, storeVars, postVars, regVars>>

\* time passes
Tick ==
    /\ now < MaxTime
    /\ now' = now + 1
    /\ UNCHANGED <<storeVars, postVars, regVars, rep>>

\* the response is out and the posting request ends: its locals are gone
PostEnd(r) ==
    /\ pc[r] = "done"
    /\ pc' = [pc EXCEPT ![r] = "idle"]
    /\ body' = [body EXCEPT ![r] = NoBody]
    /\ trx' = [trx EXCEPT ![r] = NoTrx]
    /\ loc' = [loc EXCEPT ![r] = NoLoc]
    /\ err' = [err EXCEPT ![r] = NoError]
    /\ resp' = [resp EXCEPT ![r] = NoResponse]
    /\ UNCHANGED <<now, storeVars, regVars, rep>>

\* the response is out and the registry request ends
AcctEnd(a) ==
    /\ apc[a] = "done"
    /\ apc' = [apc EXCEPT ![a] = "idle"]
    /\ areq' = [areq EXCEPT ![a] = NoRequest]
    /\ aresp' = [aresp EXCEPT ![a] = NoResponse]
    /\ UNCHANGED <<now, storeVars, postVars, rep>>

\* ---------------------------------------------------------- specifications

\* the seeded chart of accounts, each account with its balance row at zero
SeedAccounts ==
    [id \in 1..3 |->
        CASE id = 1 -> [organization_id |-> 1, code |-> "1000", account_type_id |-> 1,
                        account_category_id |-> 1, parent_account_id |-> Null,
                        updated_at |-> 0]
          [] id = 2 -> [organization_id |-> 1, code |-> "4000", account_type_id |-> 4,
                        account_category_id |-> 2, parent_account_id |-> Null,
                        updated_at |-> 0]
          [] id = 3 -> [organization_id |-> 2, code |-> "1000", account_type_id |-> 1,
                        account_category_id |-> 3, parent_account_id |-> Null,
                        updated_at |-> 0]]

SeedBalances ==
    [row \in {<<id, SeedAccounts[id].organization_id>> : id \in DOMAIN SeedAccounts} |-> 0]

Init ==
    /\ now = 0
    /\ accounts = SeedAccounts
    /\ accountSeq = 3
    /\ account_balances = SeedBalances
    /\ journal_entries = <<>>
    /\ journal_entry_lines = <<>>
    /\ entrySeq = 0
    /\ applied = {}
    /\ pc = [r \in Reqs |-> "idle"]
    /\ body = [r \in Reqs |-> NoBody]
    /\ trx = [r \in Reqs |-> NoTrx]
    /\ loc = [r \in Reqs |-> NoLoc]
    /\ err = [r \in Reqs |-> NoError]
    /\ resp = [r \in Reqs |-> NoResponse]
    /\ apc = [a \in Reqs |-> "idle"]
    /\ areq = [a \in Reqs |-> NoRequest]
    /\ aresp = [a \in Reqs |-> NoResponse]
    /\ rep = NoReport

Line(accountId, debitAmount, creditAmount) ==
    [accountId |-> accountId, debitAmount |-> debitAmount, creditAmount |-> creditAmount]

\* every sequence of at most n lines drawn from L
LineSeqs(L, n) == UNION {[1..k -> L] : k \in 0..n}

\* request bodies over lines L, organizations O and dates D
Bodies(O, D, L) ==
    {[organizationId |-> o, date |-> d, lines |-> ls] :
        o \in O, d \in D, ls \in LineSeqs(L, MaxLines)}

\* the steps of posting request r, with bodies from B and store failures from F
PostNext(r, B, F) ==
    \/ \E b \in B : PostReceive(r, b)
    \/ PostTransaction(r)
    \/ PostInsertEntry(r)
    \/ PostInsertLines(r)
    \/ PostLookup(r)
    \/ PostIncrement(r)
    \/ PostCommit(r)
    \/ PostReadEntry(r)
    \/ PostReadLines(r)
    \/ \E e \in F : PostFault(r, e)
    \/ PostCatch(r)
    \/ PostEnd(r)

\* arrival, store failure and end of registry request a, with inputs from Q
\* and store failures from F
AcctNext(a, Q, F) ==
    \/ \E rq \in Q : AcctReceive(a, rq)
    \/ \E e \in F : AcctFault(a, e)
    \/ AcctEnd(a)

\* the steps of createAccount
CreateAccountNext(a) ==
    \/ CreateAccountCheck(a)
    \/ CreateAccountInsert(a)

\* the steps of updateAccount
UpdateAccountNext(a) ==
    \/ UpdateAccountCheck(a)
    \/ UpdateAccountWrite(a)

\* Spec: one posting request and one registry request at a time, interleaved.
\* Lines: account 1 (debit-normal), 2 (credit-normal), 4 (created by
\* createAccount, in either organization), 0 (never exists).
MainLines ==
    {Line(1, 2, 0), Line(1, 0, 2), Line(2, 0, 2), Line(2, 0, 1), Line(4, 0, 2),
     Line(0, 0, 2)}

MainBodies == Bodies({1}, {1}, MainLines)

\* a new Expense account of organization 1, a new Asset account of organization 2
MainCreates ==
    {CreateRequest(1, "2000", 5, 1, Null),
     CreateRequest(2, "2000", 1, 3, Null)}

\* account 1 becomes a Revenue account
MainUpdates ==
    {UpdateRequest(1, 1, UndefinedString, 4, Undefined, Undefined)}

Next ==
    \/ PostNext(1, MainBodies, {ConnectionRefused})
    \/ AcctNext(1, MainCreates \cup MainUpdates, {ConnectionRefused})
    \/ CreateAccountNext(1)
    \/ UpdateAccountNext(1)

Spec == Init /\ [][Next]_vars

\* SpecPost: as Spec, with no updateAccount request
NextPost ==
    \/ PostNext(1, MainBodies, {ConnectionRefused})
    \/ AcctNext(1, MainCreates, {ConnectionRefused})
    \/ CreateAccountNext(1)

SpecPost == Init /\ [][NextPost]_vars

\* SpecConc: two posting requests interleaved at every await, on the seeded
\* accounts 1 and 2 of organization 1
ConcLines == {Line(1, 2, 0), Line(1, 0, 2), Line(2, 0, 2)}

ConcBodies == Bodies({1}, {1}, ConcLines)

NextConc == \E r \in Reqs : PostNext(r, ConcBodies, {DeadlockDetected})

SpecConc == Init /\ [][NextConc]_vars

\* SpecReport: one posting request and one report request (ledger or income
\* statement) at a time, interleaved at every await, over the seeded accounts
\* and an Expense account 4 of organization 1 as createAccount leaves it

\* the steps of getLedger, with requests from Q
LedgerNext(Q) ==
    \/ \E rq \in Q : LedgerReceive(rq)
    \/ LedgerAccount
    \/ LedgerCount
    \/ LedgerTransactions
    \/ LedgerPrevious

\* the steps of incomeStatement, with requests from Q
IncomeNext(Q) ==
    \/ \E rq \in Q : IncomeReceive(rq)
    \/ IncomeRevenueAccounts
    \/ IncomeExpenseAccounts
    \/ IncomeRevenueTransactions
    \/ IncomeExpenseTransactions

\* store failure and end of the report request, with failures from F
ReportEndNext(F) ==
    \/ \E e \in F : ReportFault(e)
    \/ ReportEnd

\* the store after createAccount(1, "5000", Expense): no balance row for account 4
InitReport ==
    /\ now = 0
    /\ accounts = [id \in 1..4 |->
                      IF id = 4
                      THEN insertedAccount(CreateRequest(1, "5000", 5, 1, Null))
                      ELSE SeedAccounts[id]]
    /\ accountSeq = 4
    /\ account_balances = SeedBalances
    /\ journal_entries = <<>>
    /\ journal_entry_lines = <<>>
    /\ entrySeq = 0
    /\ applied = {}
    /\ pc = [r \in Reqs |-> "idle"]
    /\ body = [r \in Reqs |-> NoBody]
    /\ trx = [r \in Reqs |-> NoTrx]
    /\ loc = [r \in Reqs |-> NoLoc]
    /\ err = [r \in Reqs |-> NoError]
    /\ resp = [r \in Reqs |-> NoResponse]
    /\ apc = [a \in Reqs |-> "idle"]
    /\ areq = [a \in Reqs |-> NoRequest]
    /\ aresp = [a \in Reqs |-> NoResponse]
    /\ rep = NoReport

Body(organizationId, date, lines) ==
    [organizationId |-> organizationId, date |-> date, lines |-> lines]

\* sales for cash of 0.002 and 0.003 on date 1 and of 0.002 on date 2, an
\* expense paid in cash, and a posting of organization 2 crediting
\* organization 1's Revenue account
ReportBodies ==
    {Body(1, 1, <<Line(1, 2, 0), Line(2, 0, 2)>>),
     Body(1, 1, <<Line(1, 3, 0), Line(2, 0, 3)>>),
     Body(1, 2, <<Line(1, 2, 0), Line(2, 0, 2)>>),
     Body(1, 2, <<Line(4, 2, 0), Line(1, 0, 2)>>),
     Body(2, 1, <<Line(3, 2, 0), Line(2, 0, 2)>>)}

\* getLedger of account 1 (and of account 3, not of organization 1)
LedgerRequests ==
    {ReportRequest(1, 1, se[1], se[2], p, l) :
        se \in {<<Undefined, Undefined>>, <<2, Undefined>>, <<Undefined, 1>>},
        p \in {1, 2}, l \in {1, 2}}
    \cup {ReportRequest(3, 1, Undefined, Undefined, 1, 1)}

\* incomeStatement of organization 1
IncomeRequests ==
    {ReportRequest(0, 1, se[1], se[2], 1, 1) :
        se \in {<<Undefined, 2>>, <<1, Undefined>>, <<1, 1>>, <<1, 2>>, <<2, 2>>}}

NextReport ==
    \/ PostNext(1, ReportBodies, {ConnectionRefused})
    \/ LedgerNext(LedgerRequests)
    \/ IncomeNext(IncomeRequests)
    \/ ReportEndNext({ConnectionRefused})

SpecReport == InitReport /\ [][NextReport]_vars

\* SpecRegistry: two registry requests (createAccount, updateAccount)
\* interleaved between their reads and their write, on the seeded accounts

\* createAccount: a code in use, a free code, an unknown type, a category and
\* a parent of organization 2, parent 0, a parent of organization 1
RegistryCreates ==
    {CreateRequest(1, "1000", 1, 1, Null),
     CreateRequest(1, "2000", 1, 1, Null),
     CreateRequest(1, "3000", 9, 1, Null),
     CreateRequest(1, "3000", 1, 3, Null),
     CreateRequest(1, "3000", 1, 1, 3),
     CreateRequest(1, "3000", 1, 1, 0),
     CreateRequest(1, "3000", 1, 1, 1)}

\* updateAccount: account 2 takes a code in use or a free code, account 1
\* takes itself or account 2 as parent, account 2 takes account 1 as parent,
\* account 1 takes category 0, account 3 is not of organization 1
RegistryUpdates ==
    {UpdateRequest(1, 2, "1000", Undefined, Undefined, Undefined),
     UpdateRequest(1, 2, "2000", Undefined, Undefined, Undefined),
     UpdateRequest(1, 1, UndefinedString, Undefined, Undefined, 1),
     UpdateRequest(1, 1, UndefinedString, Undefined, Undefined, 2),
     UpdateRequest(1, 2, UndefinedString, Undefined, Undefined, 1),
     UpdateRequest(1, 1, UndefinedString, Undefined, 0, Undefined),
     UpdateRequest(1, 3, UndefinedString, Undefined, Undefined, Null)}

NextRegistry ==
    \E a \in Reqs :
        \/ AcctNext(a, RegistryCreates \cup RegistryUpdates, {ConnectionRefused})
        \/ CreateAccountNext(a)
        \/ UpdateAccountNext(a)

SpecRegistry == Init /\ [][NextRegistry]_vars

\* SpecBooks: every operation of the service: one posting request interleaved
\* at every await with one registry request or one read request at a time

\* the steps of trialBalance, with requests from Q
TrialNext(Q) ==
    \/ \E rq \in Q : TrialReceive(rq)
    \/ TrialAccounts

\* the steps of the journal entry list, with requests from Q
ListNext(Q) ==
    \/ \E rq \in Q : ListReceive(rq)
    \/ ListCount
    \/ ListEntries
    \/ ListTotals

\* the steps of the journal entry get, with requests from Q
GetNext(Q) ==
    \/ \E rq \in Q : GetReceive(rq)
    \/ GetEntry
    \/ GetLines

\* a sale for cash, its reversal, and an expense paid in cash on account 4
BooksBodies ==
    {Body(1, 1, <<Line(1, 2, 0), Line(2, 0, 2)>>),
     Body(1, 1, <<Line(1, 0, 2), Line(2, 2, 0)>>),
     Body(1, 2, <<Line(4, 2, 0), Line(1, 0, 2)>>)}

\* account 4: an Expense account or a second Asset account of organization 1
BooksCreates ==
    {CreateRequest(1, "2000", 5, 1, Null),
     CreateRequest(1, "2000", 1, 1, Null)}

\* account 1 becomes a Revenue account; account 2 takes a code in use
BooksUpdates ==
    {UpdateRequest(1, 1, UndefinedString, 4, Undefined, Undefined),
     UpdateRequest(1, 2, "1000", Undefined, Undefined, Undefined)}

BooksLedgers == {ReportRequest(1, 1, Undefined, Undefined, 1, 2)}

BooksIncomes == {ReportRequest(0, 1, 1, 2, 1, 1)}

BooksTrials == {ReportRequest(0, 1, Undefined, Undefined, 1, 1)}

BooksLists == {ReportRequest(0, 1, Undefined, Undefined, 1, 1)}

BooksGets == {EntryRequest(1, 1), EntryRequest(1, 2)}

NextBooks ==
    \/ PostNext(1, BooksBodies, {ConnectionRefused})
    \/ /\ rep.pc = "idle"
       /\ \/ AcctNext(1, BooksCreates \cup BooksUpdates, {ConnectionRefused})
          \/ CreateAccountNext(1)
          \/ UpdateAccountNext(1)
    \/ /\ apc[1] = "idle"
       /\ \/ LedgerNext(BooksLedgers)
          \/ IncomeNext(BooksIncomes)
          \/ TrialNext(BooksTrials)
          \/ ListNext(BooksLists)
          \/ GetNext(BooksGets)
          \/ ReportEndNext({ConnectionRefused})

SpecBooks == Init /\ [][NextBooks]_vars


\* SpecFaults: one posting request whose awaits the store can fail with a
\* refused connection, a connection or statement timeout, an exhausted pool or
\* a deadlock; line 0 names no account
FaultLines == {Line(1, 2, 0), Line(2, 0, 2), Line(0, 0, 2)}

FaultBodies == Bodies({1}, {1}, FaultLines)

StoreFaults ==
    {ConnectionRefused, ConnectTimedOut, AcquireTimeout, StatementTimeout,
     DeadlockDetected}

NextFaults == PostNext(1, FaultBodies, StoreFaults)

SpecFaults == Init /\ [][NextFaults]_vars

\* SpecMerge: one updateAccount request at a time while time passes: each
\* field alone, all fields, no field, parent null, account type 0, and one
\* request for each error code
MergeUpdates ==
    {UpdateRequest(1, 1, "1500", Undefined, Undefined, Undefined),
     UpdateRequest(1, 1, UndefinedString, 4, Undefined, Undefined),
     UpdateRequest(1, 1, UndefinedString, Undefined, 2, Undefined),
     UpdateRequest(1, 2, UndefinedString, Undefined, Undefined, 1),
     UpdateRequest(1, 2, UndefinedString, Undefined, Undefined, Null),
     UpdateRequest(1, 1, "1500", 5, 2, Null),
     UpdateRequest(1, 1, UndefinedString, Undefined, Undefined, Undefined),
     UpdateRequest(1, 1, UndefinedString, 0, Undefined, Undefined),
     UpdateRequest(1, 3, "1500", Undefined, Undefined, Undefined),
     UpdateRequest(1, 2, "1000", Undefined, Undefined, Undefined),
     UpdateRequest(1, 1, UndefinedString, 9, Undefined, Undefined),
     UpdateRequest(1, 1, UndefinedString, Undefined, 3, Undefined),
     UpdateRequest(1, 1, UndefinedString, Undefined, Undefined, 3)}

NextMerge ==
    \/ AcctNext(1, MergeUpdates, {ConnectionRefused})
    \/ UpdateAccountNext(1)
    \/ Tick

SpecMerge == Init /\ [][NextMerge]_vars

\* SpecPages: one posting request and one getLedger request at a time: a sale,
\* an entry with two lines on account 1, and an entry of organization 2 with a
\* line on account 1; the ledger of account 1 by pages of one and two rows,
\* and the ledgers of account 3 (of organization 2) and account 0 (of no one)
PagesBodies ==
    {Body(1, 1, <<Line(1, 2, 0), Line(2, 0, 2)>>),
     Body(1, 2, <<Line(1, 2, 0), Line(1, 0, 2)>>),
     Body(2, 1, <<Line(3, 2, 0), Line(1, 0, 2)>>)}

PagesRequests ==
    {ReportRequest(1, 1, se[1], se[2], p, l) :
        se \in {<<Undefined, Undefined>>, <<2, Undefined>>, <<Undefined, 1>>},
        p \in {1, 2, 3}, l \in {1, 2}}
    \cup {ReportRequest(3, 1, Undefined, Undefined, 1, 1),
          ReportRequest(0, 1, Undefined, Undefined, 1, 1)}

NextPages ==
    \/ PostNext(1, PagesBodies, {ConnectionRefused})
    \/ LedgerNext(PagesRequests)
    \/ ReportEndNext({ConnectionRefused})

SpecPages == Init /\ [][NextPages]_vars


\* SpecLive: two posting requests interleaved at every await, the store
\* failing any await, and every pending await settled in the end: the store
\* answers or rejects each statement (a lock wait ends with the lock's release
\* or with the store's deadlock or connection error), and the event loop then
\* runs the handler's continuation
LiveBodies == Bodies({1}, {1}, FaultLines)

LiveFaults == {ConnectionRefused, DeadlockDetected}

\* the requests that have yet to insert their entry
Arriving == {q \in Reqs : pc[q] \in {"transaction", "insertEntry"}}

\* the continuation of request r after one of its awaits
PostStep(r) ==
    \/ PostTransaction(r)
    \/ PostInsertEntry(r)
    \/ PostInsertLines(r)
    \/ PostLookup(r)
    \/ PostIncrement(r)
    \/ PostCommit(r)
    \/ PostReadEntry(r)
    \/ PostReadLines(r)
    \/ \E e \in LiveFaults : PostFault(r, e)
    \/ PostCatch(r)

NextLive ==
    \E r \in Reqs :
        \/ /\ entrySeq + Cardinality(Arriving) < MaxEntries
           /\ \E b \in LiveBodies : PostReceive(r, b)
        \/ PostStep(r)
        \/ PostEnd(r)

SpecLive ==
    Init /\ [][NextLive]_vars /\ \A r \in Reqs : WF_vars(PostStep(r))

\* ================================================================== claims

\* positions of the committed lines of journal entry e
EntryLineIdx(e) ==
    {k \in 1..Len(journal_entry_lines) : journal_entry_lines[k].journal_entry_id = e}

EntryDebit(e) ==
    SumFn([k \in EntryLineIdx(e) |-> journal_entry_lines[k].debit_amount])

EntryCredit(e) ==
    SumFn([k \in EntryLineIdx(e) |-> journal_entry_lines[k].credit_amount])

\* the committed lines of journal entry e, in insertion order
RECURSIVE LinesFrom(_, _)
LinesFrom(e, k) ==
    IF k > Len(journal_entry_lines) THEN <<>>
    ELSE IF journal_entry_lines[k].journal_entry_id = e
    THEN <<journal_entry_lines[k]>> \o LinesFrom(e, k + 1)
    ELSE LinesFrom(e, k + 1)

EntryLines(e) == LinesFrom(e, 1)

\* the committed increments of journal entry e
EntryIncrements(e) == {a \in applied : a.journal_entry_id = e}

\* nothing of journal entry e is in the committed store
NothingPersisted(e) ==
    /\ e \notin DOMAIN journal_entries
    /\ EntryLineIdx(e) = {}
    /\ EntryIncrements(e) = {}

\* the tables a posting writes
postedTables == <<journal_entries, journal_entry_lines, account_balances, applied>>

\* ------------------------------------------------------------------- C1
\* C1: every persisted journal entry has total debits and total credits
\* within the tolerance of each other, whatever postings succeeded or failed.
C1_PersistedEntriesBalanced ==
    \A e \in DOMAIN journal_entries :
        Abs(EntryDebit(e) - EntryCredit(e)) <= Tolerance

\* an entry that is off by exactly the tolerance is persisted, after a
\* request that consumed an entry id without persisting anything
C1_Witness ==
    \E e \in DOMAIN journal_entries :
        /\ EntryDebit(e) - EntryCredit(e) = Tolerance
        /\ \E f \in 1..entrySeq : f # e /\ NothingPersisted(f)

\* ------------------------------------------------------------------- C2
\* C2: a request whose totals differ by more than the tolerance is answered
\* 400 UNBALANCED_ENTRY with totalDebit, totalCredit and their difference,
\* opens no transaction, and no step of it changes the store.
C2_UnbalancedRejected ==
    [][\A r \in Reqs :
          /\ ( /\ pc[r] = "idle"
               /\ pc'[r] # "idle"
               /\ createJournalEntrySchema(body'[r])
               /\ Abs(totalDebit(body'[r].lines) - totalCredit(body'[r].lines)) > Tolerance )
             => /\ pc'[r] = "done"
                /\ resp'[r].status = 400
                /\ resp'[r].code = "UNBALANCED_ENTRY"
                /\ resp'[r].details =
                      <<totalDebit(body'[r].lines), totalCredit(body'[r].lines),
                        totalDebit(body'[r].lines) - totalCredit(body'[r].lines)>>
                /\ trx'[r].status = "none"
                /\ loc'[r].journalEntryId = 0
                /\ storeVars' = storeVars
          /\ ( /\ pc[r] = "done"
               /\ resp[r].code = "UNBALANCED_ENTRY"
               /\ pc'[r] # "done" )
             => storeVars' = storeVars
      ]_vars

\* debit 4 against credit 0 is answered with difference 4, on an empty store
C2_Witness ==
    \E r \in Reqs :
        /\ pc[r] = "done"
        /\ resp[r] = [status |-> 400, code |-> "UNBALANCED_ENTRY", details |-> <<4, 0, 4>>]
        /\ journal_entries = <<>>
        /\ journal_entry_lines = <<>>
        /\ \A row \in DOMAIN account_balances : account_balances[row] = 0

\* ------------------------------------------------------------------- C3
\* C3: a request with fewer than 2 lines is answered 400 at once, opens no
\* transaction and changes no row; every persisted entry has at least 2 lines.
C3_FewerThanTwoLinesRejected ==
    /\ [](\A e \in DOMAIN journal_entries : Cardinality(EntryLineIdx(e)) >= 2)
    /\ [][\A r \in Reqs :
             /\ (pc[r] = "idle" /\ pc'[r] # "idle" /\ Len(body'[r].lines) < 2)
                => /\ pc'[r] = "done"
                   /\ resp'[r].status = 400
                   /\ trx'[r].status = "none"
                   /\ loc'[r].journalEntryId = 0
                   /\ storeVars' = storeVars
             /\ (pc[r] = "done" /\ Len(body[r].lines) < 2 /\ pc'[r] # "done")
                => storeVars' = storeVars
         ]_vars

\* a one-line request has been rejected
C3_Witness ==
    \E r \in Reqs :
        /\ pc[r] = "done"
        /\ Len(body[r].lines) = 1
        /\ resp[r].status = 400
        /\ trx[r].status = "none"


\* ------------------------------------------------------------------- C4
\* the balance of account id: its row in its own organization, 0 without one
AccountBalance(id) == joinedBalance(id)

\* the sum, over the request's lines on account id, of the line's change
\* under the account type's normal balance
PostedDelta(r, id) ==
    SumFn([i \in {j \in 1..Len(body[r].lines) : body[r].lines[j].accountId = id} |->
              IF normalBalance(id) = "debit"
              THEN body[r].lines[i].debitAmount - body[r].lines[i].creditAmount
              ELSE body[r].lines[i].creditAmount - body[r].lines[i].debitAmount])

\* C4: when a posting commits, every account its lines reference has
\* newBalance = oldBalance + delta.
C4_BalanceIsOldPlusDelta ==
    [][\A r \in Reqs :
          (pc[r] = "commit" /\ pc'[r] = "readEntry")
          => \A id \in {body[r].lines[i].accountId : i \in 1..Len(body[r].lines)} :
                AccountBalance(id)' = AccountBalance(id) + PostedDelta(r, id)
      ]_vars

\* ------------------------------------------------------------------- C5
\* everything of journal entry e is in the committed store: the entry row,
\* its lines, and one committed increment for every line whose balance row exists
AllPersisted(e) ==
    /\ e \in DOMAIN journal_entries
    /\ EntryLineIdx(e) # {}
    /\ \A i \in 1..Len(EntryLines(e)) :
          LET ln == EntryLines(e)[i]
              row == <<ln.account_id, journal_entries[e].organization_id>>
          IN row \in DOMAIN account_balances
             => \E a \in EntryIncrements(e) :
                   /\ a.line = i
                   /\ a.account_id = row[1]
                   /\ a.organization_id = row[2]
                   /\ a.change \in {ln.debit_amount - ln.credit_amount,
                                    ln.credit_amount - ln.debit_amount}

\* the committed increments of a balance row add up to its balance
RowIncrementSum(row) ==
    SumFn([a \in {x \in applied : x.account_id = row[1] /\ x.organization_id = row[2]} |->
              a.change])

\* C5: of every journal entry whose transaction was opened, the committed
\* store holds the entry row, every line row and every balance increment, or
\* none of them, whatever step failed.
C5_AllOrNothing ==
    /\ \A e \in 1..entrySeq : NothingPersisted(e) \/ AllPersisted(e)
    /\ \A r \in Reqs :
          LET e == loc[r].journalEntryId
          IN e \in DOMAIN journal_entries
             => /\ journal_entries[e].organization_id = body[r].organizationId
                /\ Len(EntryLines(e)) = Len(body[r].lines)
                /\ \A i \in 1..Len(body[r].lines) :
                      /\ EntryLines(e)[i].account_id = body[r].lines[i].accountId
                      /\ EntryLines(e)[i].debit_amount = body[r].lines[i].debitAmount
                      /\ EntryLines(e)[i].credit_amount = body[r].lines[i].creditAmount
    /\ \A row \in DOMAIN account_balances : account_balances[row] = RowIncrementSum(row)

\* a request failed after its entry, its lines and an increment were written
\* in its transaction, and nothing of it is in the committed store, while
\* another entry is there whole
C5_Witness ==
    \E r \in Reqs :
        /\ pc[r] = "done"
        /\ err[r] = ConnectionRefused
        /\ trx[r].status = "rolledback"
        /\ loc[r].i = 2
        /\ NothingPersisted(loc[r].journalEntryId)
        /\ \E e \in DOMAIN journal_entries : AllPersisted(e) /\ EntryIncrements(e) # {}

\* ------------------------------------------------------------------- C6
\* some line of request r names an account that does not exist
ReferencesMissingAccount(r) ==
    \E i \in 1..Len(body[r].lines) : body[r].lines[i].accountId \notin DOMAIN accounts

\* C6: a request with a line whose account does not exist changes no
\* committed row at any step, and once its lookup has failed its transaction
\* is rolled back with nothing persisted.
C6_MissingAccountAborts ==
    /\ [](\A r \in Reqs :
            ( /\ pc[r] = "done"
              /\ \E i \in 1..Len(body[r].lines) :
                    err[r] = AccountNotFoundError(body[r].lines[i].accountId) )
            => /\ trx[r].status = "rolledback"
               /\ NothingPersisted(loc[r].journalEntryId))
    /\ [][\A r \in Reqs :
             (pc[r] # "idle" /\ ReferencesMissingAccount(r) /\ pc'[r] # pc[r])
             => UNCHANGED postedTables
         ]_vars

\* the second line's account is missing: the first line's increment was made
\* in the transaction and is gone with it
C6_Witness ==
    \E r \in Reqs :
        /\ pc[r] = "done"
        /\ Len(body[r].lines) = 2
        /\ body[r].lines[1].accountId = 1
        /\ err[r] = AccountNotFoundError(0)
        /\ loc[r].i = 2
        /\ trx[r].status = "rolledback"
        /\ NothingPersisted(loc[r].journalEntryId)
        /\ account_balances[<<1, 1>>] = 0

\* ------------------------------------------------------------------- C7
\* C7: a request whose account lookup finds nothing is answered with code
\* ACCOUNT_NOT_FOUND and a 4xx status.
C7_MissingAccountIs4xx ==
    \A r \in Reqs :
        ( /\ pc[r] = "done"
          /\ \E i \in 1..Len(body[r].lines) :
                err[r] = AccountNotFoundError(body[r].lines[i].accountId) )
        => /\ resp[r].code = "ACCOUNT_NOT_FOUND"
           /\ resp[r].status \in 400..499

\* ------------------------------------------------------------------- C8
\* C8: no posting commits while one of its lines names an existing account
\* that has no balance row for (accountId, organizationId).
C8_NoCommitWithoutBalanceRow ==
    \A r \in Reqs :
        trx[r].status = "committed"
        => \A i \in 1..Len(body[r].lines) :
              body[r].lines[i].accountId \in DOMAIN accounts
              => <<body[r].lines[i].accountId, body[r].organizationId>>
                    \in DOMAIN account_balances

\* ------------------------------------------------------------------- C9
\* the committed lines that belong to a balance row
RowLineIdx(row) ==
    {k \in 1..Len(journal_entry_lines) :
        /\ journal_entry_lines[k].account_id = row[1]
        /\ journal_entries[journal_entry_lines[k].journal_entry_id].organization_id = row[2]}

\* C9: whatever the interleaving of concurrent postings, the balance of a row
\* is its initial balance (zero) plus the deltas of all committed lines on it.
C9_NoLostIncrement ==
    \A row \in DOMAIN account_balances :
        account_balances[row] =
            SumFn([k \in RowLineIdx(row) |->
                      IF normalBalance(row[1]) = "debit"
                      THEN journal_entry_lines[k].debit_amount
                             - journal_entry_lines[k].credit_amount
                      ELSE journal_entry_lines[k].credit_amount
                             - journal_entry_lines[k].debit_amount])

\* two postings that overlapped (entry 1 was inserted first, entry 2
\* committed first) have both committed increments of account 1
C9_Witness ==
    /\ {1, 2} \subseteq DOMAIN journal_entries
    /\ journal_entry_lines[1].journal_entry_id = 2
    /\ \A e \in {1, 2} :
          \E a \in EntryIncrements(e) : a.account_id = 1 /\ a.change # 0
    /\ account_balances[<<1, 1>>] # 0

\* ------------------------------------------------------------------ C10
\* C10: while every persisted entry is balanced, the trial balance of every
\* organization has totalDebits = totalCredits.
C10_TrialBalanceBalances ==
    (\A e \in DOMAIN journal_entries : EntryDebit(e) = EntryCredit(e))
    => \A org \in Orgs : totalDebits(org) = totalCredits(org) /\ difference(org) = 0

\* ------------------------------------------------------------- C11 .. C13

\* getLedger has answered 200 and nothing was committed while it ran
LedgerAnswered ==
    /\ rep.op = "ledger"
    /\ rep.pc = "done"
    /\ rep.resp.status = 200
    /\ rep.seen = StoreSeen

\* the normal-balance delta of committed line k
LineDelta(nb, k) ==
    IF nb = "debit"
    THEN journal_entry_lines[k].debit_amount - journal_entry_lines[k].credit_amount
    ELSE journal_entry_lines[k].credit_amount - journal_entry_lines[k].debit_amount

\* the sum of the deltas of the lines S
DeltaSum(nb, S) == SumFn([k \in S |-> LineDelta(nb, k)])

\* all posted lines of an account
PostedLines(accountId) ==
    {k \in DOMAIN journal_entry_lines :
        /\ journal_entry_lines[k].account_id = accountId
        /\ journal_entries[entryOf(k)].status = "posted"}

\* line j is chronologically before line k: by date, then by entry id
Before(j, k) ==
    \/ dateOf(j) < dateOf(k)
    \/ (dateOf(j) = dateOf(k) /\ entryOf(j) < entryOf(k))

\* the true historical balance of the account at line k
HistoricalBalance(nb, k) ==
    DeltaSum(nb, {j \in PostedLines(journal_entry_lines[k].account_id) :
                     Before(j, k) \/ entryOf(j) = entryOf(k)})

\* C11: the balance of every row getLedger returns is the true historical
\* balance of the account at that row, whatever the page, limit and dates.
C11_LedgerBalanceIsHistorical ==
    LedgerAnswered
    => \A i \in DOMAIN rep.resp.transactions :
          rep.resp.transactions[i].balance =
              HistoricalBalance(rep.loc.normalBalance, rep.resp.transactions[i].line)

\* C12: with page 1 and no date filter the oldest returned row's balance is
\* that row's own delta, however many rows the page holds.
C12_FirstPageStartsAtZero ==
    (/\ LedgerAnswered
     /\ rep.req.page = 1
     /\ ~Truthy(rep.req.startDate)
     /\ ~Truthy(rep.req.endDate)
     /\ rep.resp.transactions # <<>>)
    => rep.resp.transactions[1].balance =
          LineDelta(rep.loc.normalBalance, rep.resp.transactions[1].line)

\* C13: with a startDate the running balance is seeded with the deltas of the
\* account's lines dated before the oldest returned row, and that row's
\* balance is the seed plus its own delta; with page > 1 and no startDate the
\* seed is the sum of the deltas of the rows older than the returned page.
C13_SeedIsPriorBalance ==
    (LedgerAnswered /\ rep.resp.transactions # <<>>)
    => LET oldest == rep.resp.transactions[1]
           nb == rep.loc.normalBalance
       IN /\ Truthy(rep.req.startDate)
             => /\ rep.loc.runningBalance =
                      DeltaSum(nb, {j \in PostedLines(rep.req.accountId) :
                                       dateOf(j) < dateOf(oldest.line)})
                /\ oldest.balance = rep.loc.runningBalance + LineDelta(nb, oldest.line)
          /\ (rep.req.page > 1 /\ ~Truthy(rep.req.startDate))
             => rep.loc.runningBalance =
                   DeltaSum(nb, {j \in LedgerRows(rep.req.accountId,
                                                  rep.req.organizationId,
                                                  Undefined, rep.req.endDate) :
                                    Before(j, oldest.line)})

\* ------------------------------------------------------------- C14 .. C15

\* incomeStatement has answered 200 and nothing was committed while it ran
IncomeAnswered ==
    /\ rep.op = "income"
    /\ rep.pc = "done"
    /\ rep.resp.status = 200
    /\ rep.seen = StoreSeen

\* the posted lines of the organization's accounts of one type, dated in the
\* request's period
PeriodLines(typeName) ==
    {k \in DOMAIN journal_entry_lines :
        /\ journal_entry_lines[k].account_id
              \in AccountsOfType(rep.req.organizationId, typeName)
        /\ journal_entries[entryOf(k)].status = "posted"
        /\ rep.req.startDate <= dateOf(k)
        /\ dateOf(k) <= rep.req.endDate}

\* C14: incomeStatement without startDate or endDate answers
\* MISSING_DATE_PARAMETERS; otherwise totalRevenue is the sum of credit - debit
\* over the period's lines of the organization's Revenue accounts,
\* totalExpenses the sum of debit - credit over those of its Expense accounts,
\* and netIncome = totalRevenue - totalExpenses.
C14_IncomeStatementTotals ==
    /\ (/\ rep.op = "income"
        /\ rep.pc = "done"
        /\ (~Truthy(rep.req.startDate) \/ ~Truthy(rep.req.endDate)))
       => rep.resp.status = 400 /\ rep.resp.code = "MISSING_DATE_PARAMETERS"
    /\ IncomeAnswered
       => /\ rep.resp.totalRevenue = DeltaSum("credit", PeriodLines("Revenue"))
          /\ rep.resp.totalExpenses = DeltaSum("debit", PeriodLines("Expense"))
          /\ rep.resp.netIncome = rep.resp.totalRevenue - rep.resp.totalExpenses

\* the store holds exactly one entry, of organization o on date d, debiting
\* the debit-normal account cash by x and crediting the Revenue account by x
OneSale(o, d, cash, revenue, x) ==
    /\ Cardinality(DOMAIN journal_entries) = 1
    /\ \A e \in DOMAIN journal_entries :
          journal_entries[e].organization_id = o /\ journal_entries[e].date = d
    /\ Len(journal_entry_lines) = 2
    /\ \E k \in 1..2 :
          /\ journal_entry_lines[k].account_id = cash
          /\ journal_entry_lines[k].debit_amount = x
          /\ journal_entry_lines[k].credit_amount = 0
          /\ journal_entry_lines[3 - k].account_id = revenue
          /\ journal_entry_lines[3 - k].debit_amount = 0
          /\ journal_entry_lines[3 - k].credit_amount = x
    /\ accounts[cash].organization_id = o
    /\ accounts[revenue].organization_id = o
    /\ normalBalance(cash) = "debit"
    /\ account_types[accounts[revenue].account_type_id].name = "Revenue"

\* C15: after one posting that debits Cash by x and credits Revenue by x on
\* date d and nothing else, getLedger(Cash) returns one row with balance +x,
\* and incomeStatement over a period containing d reports revenue x and
\* netIncome x.
C15_SaleShowsInLedgerAndIncome ==
    \A o \in Orgs, d \in 1..2, cash \in DOMAIN accounts, revenue \in DOMAIN accounts,
       x \in 1..3 :
        OneSale(o, d, cash, revenue, x)
        => /\ (/\ LedgerAnswered
               /\ rep.req.accountId = cash
               /\ rep.req.organizationId = o
               /\ rep.req.page = 1
               /\ (Truthy(rep.req.startDate) => rep.req.startDate <= d)
               /\ (Truthy(rep.req.endDate) => d <= rep.req.endDate))
              => /\ Len(rep.resp.transactions) = 1
                 /\ rep.resp.transactions[1].balance = x
                 /\ journal_entry_lines[rep.resp.transactions[1].line].account_id = cash
           /\ (/\ IncomeAnswered
               /\ rep.req.organizationId = o
               /\ rep.req.startDate <= d
               /\ d <= rep.req.endDate)
              => /\ rep.resp.totalRevenue = x
                 /\ rep.resp.netIncome = x

\* one sale of 0.002 on date 1, and the income statement of dates 1 to 2 answered
C15_Witness ==
    /\ OneSale(1, 1, 1, 2, 2)
    /\ IncomeAnswered
    /\ rep.req.startDate = 1
    /\ rep.req.endDate = 2
    /\ rep.resp.totalRevenue = 2
    /\ rep.resp.netIncome = 2

\* ------------------------------------------------------------- C16 .. C20

\* registry request a leaves its reads with an answer of the handler (not of
\* the error middleware after a store failure) or goes on to its write
Checked(a) ==
    /\ apc[a] = "check"
    /\ apc'[a] # "check"
    /\ aresp'[a].status # 503

\* another account of the organization holds the code
CodeHeldByOther(org, code, self) ==
    \E id \in DOMAIN accounts \ {self} :
        accounts[id].organization_id = org /\ accounts[id].code = code

\* the request asks for a code that the store holds already
AsksForCodeInUse(rq) ==
    \/ /\ rq.op = "create"
       /\ CodeHeldByOther(rq.organizationId, rq.code, 0)
    \/ /\ rq.op = "update"
       /\ rq.accountId \in DOMAIN accounts
       /\ accounts[rq.accountId].organization_id = rq.organizationId
       /\ rq.code # UndefinedString
       /\ rq.code # accounts[rq.accountId].code
       /\ CodeHeldByOther(rq.organizationId, rq.code, rq.accountId)

\* C16: createAccount with an (organizationId, code) that exists, and
\* updateAccount changing the code to one of another account of the
\* organization, answer 400 DUPLICATE_ACCOUNT_CODE and write nothing.
C16_DuplicateCodeRejected ==
    [][\A a \in Reqs :
          /\ (Checked(a) /\ AsksForCodeInUse(areq[a]))
             => /\ apc'[a] = "done"
                /\ aresp'[a] = Response(400, "DUPLICATE_ACCOUNT_CODE", <<>>)
                /\ storeVars' = storeVars
          /\ (/\ apc[a] = "done"
              /\ aresp[a].code = "DUPLICATE_ACCOUNT_CODE"
              /\ apc'[a] # "done")
             => storeVars' = storeVars
      ]_vars

\* a createAccount and an updateAccount have both been answered
\* DUPLICATE_ACCOUNT_CODE and the accounts are as seeded
C16_Witness ==
    /\ \E a \in Reqs :
          /\ apc[a] = "done"
          /\ areq[a].op = "create"
          /\ aresp[a] = Response(400, "DUPLICATE_ACCOUNT_CODE", <<>>)
    /\ \E a \in Reqs :
          /\ apc[a] = "done"
          /\ areq[a].op = "update"
          /\ aresp[a] = Response(400, "DUPLICATE_ACCOUNT_CODE", <<>>)
    /\ accounts = SeedAccounts

\* C17: no two accounts of one organization have the same code, whatever the
\* interleaving of createAccount and updateAccount requests.
C17_CodesUniquePerOrganization ==
    \A i \in DOMAIN accounts, j \in DOMAIN accounts :
        (i # j /\ accounts[i].organization_id = accounts[j].organization_id)
        => accounts[i].code # accounts[j].code

\* the category and the parent of account id are of the account's organization
RefsInOwnOrganization(id) ==
    /\ accounts[id].account_category_id \in DOMAIN account_categories
    /\ account_categories[accounts[id].account_category_id].organization_id
          = accounts[id].organization_id
    /\ accounts[id].parent_account_id # Null
       => /\ accounts[id].parent_account_id \in DOMAIN accounts
          /\ accounts[accounts[id].parent_account_id].organization_id
                = accounts[id].organization_id

\* the code createAccount must fail with, by the first rule the body breaks
\* after the duplicate-code rule; "" for a body that breaks none
CreateMustFailWith(rq) ==
    IF rq.accountTypeId \notin DOMAIN account_types
    THEN "INVALID_ACCOUNT_TYPE"
    ELSE IF \/ rq.accountCategoryId \notin DOMAIN account_categories
            \/ account_categories[rq.accountCategoryId].organization_id
                  # rq.organizationId
    THEN "INVALID_ACCOUNT_CATEGORY"
    ELSE IF /\ rq.parentAccountId \notin {Null, Undefined}
            /\ \/ rq.parentAccountId \notin DOMAIN accounts
               \/ accounts[rq.parentAccountId].organization_id # rq.organizationId
    THEN "INVALID_PARENT_ACCOUNT"
    ELSE ""

\* C18: createAccount with an unknown type, with a category missing or of
\* another organization, or with a parent that is set but not an account of
\* the organization, answers the matching code and inserts nothing; the
\* category and the parent of every account are of its own organization.
C18_ReferencesChecked ==
    /\ [](\A id \in DOMAIN accounts : RefsInOwnOrganization(id))
    /\ [][\A a \in Reqs :
             (/\ Checked(a)
              /\ areq[a].op = "create"
              /\ ~AsksForCodeInUse(areq[a])
              /\ CreateMustFailWith(areq[a]) # "")
             => /\ apc'[a] = "done"
                /\ aresp'[a] = Response(400, CreateMustFailWith(areq[a]), <<>>)
                /\ storeVars' = storeVars
         ]_vars

\* C19: updateAccount with parentAccountId equal to the id of the account
\* being updated answers 400 INVALID_PARENT_ACCOUNT and writes nothing.
C19_SelfParentRejected ==
    [][\A a \in Reqs :
          (/\ Checked(a)
           /\ areq[a].op = "update"
           /\ areq[a].accountId \in DOMAIN accounts
           /\ accounts[areq[a].accountId].organization_id = areq[a].organizationId
           /\ ~AsksForCodeInUse(areq[a])
           /\ areq[a].accountTypeId = Undefined
           /\ areq[a].accountCategoryId = Undefined
           /\ areq[a].parentAccountId = areq[a].accountId)
          => /\ apc'[a] = "done"
             /\ aresp'[a] = Response(400, "INVALID_PARENT_ACCOUNT", <<>>)
             /\ storeVars' = storeVars
      ]_vars

\* following parent_account_id from account x reaches y within n steps
RECURSIVE ReachesByParent(_, _, _)
ReachesByParent(x, y, n) ==
    /\ n > 0
    /\ x \in DOMAIN accounts
    /\ \/ accounts[x].parent_account_id = y
       \/ ReachesByParent(accounts[x].parent_account_id, y, n - 1)

\* C20: the parent relation is acyclic: no account is its own ancestor.
C20_ParentRelationAcyclic ==
    \A id \in DOMAIN accounts :
        ~ReachesByParent(id, id, Cardinality(DOMAIN accounts))

\* ------------------------------------------------------------------ C21

\* a step of a registry request (createAccount, updateAccount)
RegistryStep == regVars' # regVars

\* a step of a read request (getLedger, trialBalance, incomeStatement, the
\* journal entry list and get)
ReadStep == rep' # rep

\* C21: only postJournalEntry changes account balances: every step of
\* createAccount and updateAccount and every step of a read leaves all
\* account_balances rows as they are, a read step leaves the whole store as it
\* is, and the balances change only in the commit of a posting.
C21_OnlyPostingChangesBalances ==
    [][/\ (RegistryStep => UNCHANGED account_balances)
       /\ (ReadStep => UNCHANGED storeVars)
       /\ (account_balances' # account_balances =>
              \E r \in Reqs : pc[r] = "commit" /\ pc'[r] = "readEntry")]_vars

\* updateAccount has made account 1 a Revenue account after a posting moved
\* its balance away from zero
C21_Witness ==
    /\ apc[1] = "done" /\ areq[1].op = "update" /\ aresp[1].status = 200
    /\ accounts[1].account_type_id = 4
    /\ account_balances[<<1, 1>>] # 0

\* ------------------------------------------------------------------ C22

\* C22: a persisted journal entry and its lines never change or disappear in
\* any later step of any operation, and every persisted journal entry has
\* status 'posted' in every reachable state.
C22_PostedEntriesImmutable ==
    /\ [](\A e \in DOMAIN journal_entries : journal_entries[e].status = "posted")
    /\ [][/\ \A e \in DOMAIN journal_entries :
               /\ e \in DOMAIN journal_entries'
               /\ journal_entries'[e] = journal_entries[e]
           /\ \A k \in DOMAIN journal_entry_lines :
               /\ k \in DOMAIN journal_entry_lines'
               /\ journal_entry_lines'[k] = journal_entry_lines[k]]_vars

\* two entries are persisted, the second by a posting that has been answered,
\* and a registry write has been answered since
C22_Witness ==
    /\ DOMAIN journal_entries = {1, 2}
    /\ Len(journal_entry_lines) = 4
    /\ pc[1] = "done" /\ resp[1].status = 201
    /\ apc[1] = "done" /\ aresp[1].status \in {200, 201}

\* ------------------------------------------------------------------ C23

\* a failure of the infrastructure: connection refused, timeout, pool exhaustion
Infrastructure(e) ==
    \/ e.code \in {"ECONNREFUSED", "ETIMEDOUT", "57014"}
    \/ e.name = "KnexTimeoutError"

\* the response the claim gives error e under NODE_ENV = env
Classified(env, e) ==
    IF Infrastructure(e)
    THEN Response(503, "DATABASE_ERROR", IF env = "development" THEN e.message ELSE <<>>)
    ELSE IF e.name = "ValidationError"
    THEN Response(400, "VALIDATION_ERROR", detailsOf(e))
    ELSE Response(500, "SERVER_ERROR", IF env = "development" THEN e.message ELSE <<>>)

\* C23: every error that reaches the error handler is answered by its class:
\* an infrastructure failure (connection refused, timeout, pool exhaustion) with
\* 503 DATABASE_ERROR, a ValidationError with 400 VALIDATION_ERROR, every other
\* fault with 500 SERVER_ERROR, and DATABASE_ERROR and SERVER_ERROR carry
\* details only in development mode.
C23_ErrorsClassified ==
    \A r \in Reqs :
        (pc[r] = "done" /\ err[r] # NoError) =>
            /\ resp[r] = Classified(NODE_ENV, err[r])
            /\ \A env \in {"development", "production"} :
                  /\ errorHandlerIn(env, err[r]) = Classified(env, err[r])
                  /\ (errorHandlerIn(env, err[r]).details # <<>>) => env = "development"

\* ------------------------------------------------------------------ C24

\* the error codes updateAccount answers before it writes
UpdateFailures ==
    {"ACCOUNT_NOT_FOUND", "DUPLICATE_ACCOUNT_CODE", "INVALID_ACCOUNT_TYPE",
     "INVALID_ACCOUNT_CATEGORY", "INVALID_PARENT_ACCOUNT"}

\* the step in which updateAccount request a is answered
UpdateAnswered(a) ==
    areq[a].op = "update" /\ apc[a] # "done" /\ apc'[a] = "done"

\* C24: updateAccount is a partial merge: when it answers 200 each supplied
\* field of the account has the supplied value, updated_at is the current time,
\* every field not supplied (organization_id among them) and every other
\* account is as before; when it answers ACCOUNT_NOT_FOUND,
\* DUPLICATE_ACCOUNT_CODE, INVALID_ACCOUNT_TYPE, INVALID_ACCOUNT_CATEGORY or
\* INVALID_PARENT_ACCOUNT the store is as before.
C24_UpdateIsPartialMerge ==
    [][\A a \in Reqs :
          UpdateAnswered(a) =>
             LET rq == areq[a]
                 old == accounts[rq.accountId]
                 new == accounts'[rq.accountId]
             IN /\ aresp'[a].status = 200 =>
                    /\ new.code = (IF rq.code # UndefinedString THEN rq.code ELSE old.code)
                    /\ new.account_type_id =
                          (IF rq.accountTypeId # Undefined
                           THEN rq.accountTypeId ELSE old.account_type_id)
                    /\ new.account_category_id =
                          (IF rq.accountCategoryId # Undefined
                           THEN rq.accountCategoryId ELSE old.account_category_id)
                    /\ new.parent_account_id =
                          (IF rq.parentAccountId # Undefined
                           THEN rq.parentAccountId ELSE old.parent_account_id)
                    /\ new.organization_id = old.organization_id
                    /\ new.updated_at = now
                    /\ DOMAIN accounts' = DOMAIN accounts
                    /\ \A id \in DOMAIN accounts \ {rq.accountId} :
                          accounts'[id] = accounts[id]
                    /\ UNCHANGED <<accountSeq, account_balances, journal_entries,
                                   journal_entry_lines, entrySeq>>
                /\ aresp'[a].code \in UpdateFailures => UNCHANGED storeVars]_vars

\* account 1, made a Revenue account at an earlier time, has taken code "1500"
\* at time 2 and is still a Revenue account
C24_Witness ==
    /\ apc[1] = "done" /\ aresp[1].status = 200
    /\ areq[1] = UpdateRequest(1, 1, "1500", Undefined, Undefined, Undefined)
    /\ accounts[1].code = "1500"
    /\ accounts[1].account_type_id = 4
    /\ accounts[1].updated_at = 2
    /\ accounts[2].updated_at = 0

\* ------------------------------------------------------------------ C25

\* the step in which trialBalance answers 200
TrialAnswered ==
    rep.op = "trial" /\ rep.pc = "trialAccounts" /\ rep'.pc = "done" /\ rep'.resp.status = 200

\* the account rows of a trial balance, over all its type and category groups
TrialRows(tb) ==
    UNION {UNION {tb[t].categories[c].accounts : c \in DOMAIN tb[t].categories} :
              t \in DOMAIN tb}

\* the type and category groups of a trial balance that list account id
GroupsHolding(tb, id) ==
    UNION {{<<t, c>> : c \in {x \in DOMAIN tb[t].categories :
                                 \E acc \in tb[t].categories[x].accounts : acc.id = id}} :
              t \in DOMAIN tb}

\* the balance of a row stands in one column: on the normal side when it is
\* not negative, as its absolute value on the other side when it is
OneColumn(acc) ==
    /\ acc.debitBalance >= 0 /\ acc.creditBalance >= 0
    /\ acc.debitBalance = 0 \/ acc.creditBalance = 0
    /\ IF acc.normalBalance = "debit"
       THEN IF acc.balance >= 0
            THEN acc.debitBalance = acc.balance /\ acc.creditBalance = 0
            ELSE acc.creditBalance = Abs(acc.balance) /\ acc.debitBalance = 0
       ELSE IF acc.balance >= 0
            THEN acc.creditBalance = acc.balance /\ acc.debitBalance = 0
            ELSE acc.debitBalance = Abs(acc.balance) /\ acc.creditBalance = 0

\* C25: in the answer of trialBalance every account of the organization
\* appears once, with its stored balance (0 without a balance row) in exactly
\* one column; each category total is the sum of its accounts' columns, each
\* type total the sum of its categories' totals, the grand totals the sum of
\* the type totals, and difference = |totalDebits - totalCredits|.
C25_TrialBalanceColumnsAndTotals ==
    [][TrialAnswered =>
          LET out == rep'.resp
              tb == out.trialBalance
          IN /\ {acc.id : acc \in TrialRows(tb)} =
                    {id \in DOMAIN accounts :
                        accounts[id].organization_id = rep.req.organizationId}
             /\ \A acc \in TrialRows(tb) :
                    /\ acc.balance = joinedBalance(acc.id)
                    /\ acc.normalBalance = normalBalance(acc.id)
                    /\ OneColumn(acc)
                    /\ Cardinality(GroupsHolding(tb, acc.id)) = 1
             /\ \A t \in DOMAIN tb :
                    /\ \A c \in DOMAIN tb[t].categories :
                          LET cat == tb[t].categories[c]
                          IN /\ cat.totalDebit =
                                   SumFn([acc \in cat.accounts |-> acc.debitBalance])
                             /\ cat.totalCredit =
                                   SumFn([acc \in cat.accounts |-> acc.creditBalance])
                    /\ tb[t].totalDebit =
                          SumFn([c \in DOMAIN tb[t].categories |->
                                    tb[t].categories[c].totalDebit])
                    /\ tb[t].totalCredit =
                          SumFn([c \in DOMAIN tb[t].categories |->
                                    tb[t].categories[c].totalCredit])
             /\ out.totalDebits = SumFn([t \in DOMAIN tb |-> tb[t].totalDebit])
             /\ out.totalCredits = SumFn([t \in DOMAIN tb |-> tb[t].totalCredit])
             /\ out.difference = Abs(out.totalDebits - out.totalCredits)]_vars

\* a trial balance with two accounts in one category and an account whose
\* negative balance stands in the column opposite to its normal side
C25_Witness ==
    /\ rep.op = "trial" /\ rep.pc = "done" /\ rep.resp.status = 200
    /\ \E t \in DOMAIN rep.resp.trialBalance :
          \E c \in DOMAIN rep.resp.trialBalance[t].categories :
              Cardinality(rep.resp.trialBalance[t].categories[c].accounts) = 2
    /\ \E acc \in TrialRows(rep.resp.trialBalance) :
          acc.balance < 0 /\ acc.normalBalance = "debit" /\ acc.creditBalance > 0

\* ------------------------------------------------------------------ C26

\* getLedger has answered and nothing was committed while it ran
LedgerDone == rep.op = "ledger" /\ rep.pc = "done" /\ rep.seen = StoreSeen

\* the lines a getLedger request with these filters has to list
LinesToList(rq) ==
    {k \in DOMAIN journal_entry_lines :
        /\ journal_entry_lines[k].account_id = rq.accountId
        /\ journal_entries[entryOf(k)].organization_id = rq.organizationId
        /\ journal_entries[entryOf(k)].status = "posted"
        /\ (rq.startDate # Undefined => dateOf(k) >= rq.startDate)
        /\ (rq.endDate # Undefined => dateOf(k) <= rq.endDate)}

\* the lines page p lists when the store answers its query in order s
PageLines(rq, s, p) == reverse(LimitOffset(s, rq.limit, (p - 1) * rq.limit))

\* a page in ascending (date, entry id) order
Ascending(page) ==
    \A i, j \in DOMAIN page :
        i < j => \/ dateOf(page[i]) < dateOf(page[j])
                 \/ (dateOf(page[i]) = dateOf(page[j]) /\ entryOf(page[i]) <= entryOf(page[j]))

\* the pages answered in the orders f list every line of S exactly once
ListedOnce(rq, f, S) ==
    \A k \in S :
        Cardinality({<<p, i>> \in (DOMAIN f) \X (1..rq.limit) :
                        /\ i \in DOMAIN PageLines(rq, f[p], p)
                        /\ PageLines(rq, f[p], p)[i] = k}) = 1

\* C26: on a fixed store getLedger answers ACCOUNT_NOT_FOUND for an account
\* that is not of the organization; otherwise pagination.total is the number of
\* the account's lines in posted entries of the organization within the date
\* range, pagination.pages is ceil(total / limit), the answered page is in
\* ascending (date, entry id) order, and the pages 1..pages, this one and the
\* others as the store can answer them, together list each of those lines
\* exactly once.
C26_LedgerPagesListEachLineOnce ==
    LedgerDone =>
        IF ~AccountInOrg(rep.req.accountId, rep.req.organizationId)
        THEN rep.resp.status \in {404, 503}
             /\ (rep.resp.status = 404 => rep.resp.code = "ACCOUNT_NOT_FOUND")
        ELSE rep.resp.status = 200 =>
             LET S == LinesToList(rep.req)
                 pages == ceil(Cardinality(S), rep.req.limit)
                 answered == [i \in DOMAIN rep.resp.transactions |->
                                 rep.resp.transactions[i].line]
             IN /\ rep.resp.total = Cardinality(S)
                /\ rep.resp.pages = pages
                /\ Ascending(answered)
                /\ \A i \in DOMAIN answered : answered[i] \in S
                /\ \A f \in [1..pages -> OrderByDateIdDesc(S)] :
                      (rep.req.page \in 1..pages
                          => PageLines(rep.req, f[rep.req.page], rep.req.page) = answered)
                      => ListedOnce(rep.req, f, S)

\* ------------------------------------------------------------------ C27

\* no posting request and no registry request is in flight
BetweenCalls ==
    /\ \A r \in Reqs : pc[r] \in {"idle", "done"}
    /\ \A a \in Reqs : apc[a] \in {"idle", "done"}

\* C27: after any sequence of createAccount, updateAccount and postJournalEntry
\* calls the stored balance of every account (0 without a balance row) is the
\* sum, over the account's persisted posted lines, of the normal-balance delta
\* under the account's current normal balance.
C27_BalanceAgreesWithJournal ==
    BetweenCalls =>
        \A id \in DOMAIN accounts :
            accounts[id].account_type_id \in DOMAIN account_types =>
                joinedBalance(id) = DeltaSum(normalBalance(id), PostedLines(id))

\* ------------------------------------------------------------------ C28

\* the body of posting request r has a line on an account of another organization
ReferencesForeignAccount(r) ==
    \E i \in DOMAIN body[r].lines :
        /\ body[r].lines[i].accountId \in DOMAIN accounts
        /\ accounts[body[r].lines[i].accountId].organization_id # body[r].organizationId

\* C28: every line of a persisted journal entry is on an account of the
\* entry's organization, and a posting with a line on an account of another
\* organization is answered with an error and persists nothing.
C28_LinesInEntryOrganization ==
    /\ \A k \in DOMAIN journal_entry_lines :
          /\ journal_entry_lines[k].account_id \in DOMAIN accounts
          /\ accounts[journal_entry_lines[k].account_id].organization_id
                = journal_entries[entryOf(k)].organization_id
    /\ \A r \in Reqs :
          (pc[r] = "done" /\ ReferencesForeignAccount(r)) =>
              /\ resp[r].status >= 400
              /\ NothingPersisted(loc[r].journalEntryId)

\* ------------------------------------------------------------------ C29

\* C29: when postJournalEntry has answered with an error, no journal entry, line
\* or balance change of that request is persisted, and the request's entry is
\* persisted only when the answer is 201.
C29_ErrorMeansNothingPersisted ==
    \A r \in Reqs :
        pc[r] = "done" =>
            /\ resp[r].status >= 400 => NothingPersisted(loc[r].journalEntryId)
            /\ ~NothingPersisted(loc[r].journalEntryId) => resp[r].status = 201

\* C30: every postJournalEntry request terminates with exactly one response,
\* and every transaction it opens is in the end either committed or rolled
\* back, never both and never left open, on every path: validation failure,
\* unbalanced entry, missing account, store failure at any await, success.
\* A request that has arrived reaches its end; at its end it has a response
\* and its transaction is not open; a response once sent is not sent again;
\* a transaction once committed or rolled back stays so until the request ends.
Settled(r) ==
    /\ resp[r] # NoResponse
    /\ trx[r].status \in {"none", "committed", "rolledback"}

OneResponse(r) ==
    resp[r] # NoResponse => resp'[r] = resp[r] \/ pc'[r] = "idle"

OneOutcome(r) ==
    /\ trx[r].status \in {"committed", "rolledback"} =>
           trx'[r].status = trx[r].status \/ pc'[r] = "idle"
    /\ trx[r].status = "open" =>
           trx'[r].status \in {"open", "committed", "rolledback"}

C30_PostingTerminatesSettled ==
    /\ [](\A r \in Reqs : pc[r] = "done" => Settled(r))
    /\ [][\A r \in Reqs : OneResponse(r) /\ OneOutcome(r)]_vars
    /\ \A r \in Reqs : (pc[r] # "idle") ~> (pc[r] = "done")

\* one request ended by a store failure with its transaction rolled back,
\* the other ended with its transaction committed
C30_Witness ==
    \E r, q \in Reqs :
        /\ pc[r] = "done" /\ resp[r].status >= 500
        /\ trx[r].status = "rolledback"
        /\ pc[q] = "done" /\ resp[q].status = 201
        /\ trx[q].status = "committed"

====
